---- MODULE Spec2Model ----
(***************************************************************************)
(* Model of the wallet tracker (class WalletTracker).  The repository      *)
(* holds several iterations of the tracker module:                         *)
(*   src/src/utils/index.ts   the current module (debounced batching,      *)
(*                            correlation map, balance map)                *)
(*   src/unnamed/part_003     an earlier iteration (discovery store with   *)
(*   src/unnamed/part_004     eviction, correlation with alerts)           *)
(* Each group of variables below belongs to one component; each            *)
(* specification drives one component and leaves the others untouched.     *)
(***************************************************************************)
EXTENDS Integers, Sequences, FiniteSets, TLC

VARIABLES
    \* ---- discovery store (part_003) ----
    trackedWallets,   \* [1..2 -> Seq([address, timestamp])]: trackedWallets_1/_2 in insertion order
    isTracking,       \* this.isTracking
    now,              \* Date.now(), in clock units
    \* ---- correlation map (index.ts and part_003) ----
    iteration,        \* which iteration of the module runs: "index" or "part_003"
    pumpfunTokens,    \* [Tokens -> {0, 1, 2, 3, -1}]: this.pumpfunTokens, 0 for an absent key
    inflight,         \* [1..MaxHandlers -> handler]: handlers suspended at an await
    alerts,           \* [Tokens -> Nat]: token alerts handed to bot.sendMessage
    log,              \* [Tokens -> Seq([id, action])]: finished handlers, in order of return
    \* ---- update batcher (index.ts) ----
    pendingUpdates,   \* [1..2 -> Seq([mint, balance])]: this.pendingUpdates, in insertion order
    updateTimeouts,   \* [1..2 -> timer id, 0 when absent]: this.updateTimeouts
    timers,           \* [TimerIds -> [wallet, fireAt, state]]: every setTimeout made so far
    flushes,          \* [TimerIds -> flush]: the timeout callbacks, each with its locals; one at
                      \* pc "sendMessage" holds the message it handed to bot.sendMessage;
                      \* failed notes the tokens whose lookup failed in this callback
    trackedBalances,  \* [1..2 -> [Mints -> balance]]: trackedWallets_1/_2 of index.ts, 0 when absent
    window,           \* [1..2 -> [Mints -> [n, last]]]: enqueues since the last swap, counted
                      \* up to 2, and the latest balance (observation only)
    \* ---- rate limiter (rateLimiter.ts) ----
    clock,              \* Date.now() as the limiter reads it, in milliseconds
    globalMessageCount, \* this.globalMessageCount
    lastGlobalReset,    \* this.lastGlobalReset
    chatLimits,         \* [Chats -> RateLimit record, NoLimit for an absent key]: this.chatLimits
    waiters,            \* [1..MaxCallers -> call]: the calls of waitForRateLimit, each with its position
    completions,        \* [Chats -> [last, gap]]: when the latest call for a chat resolved and
                        \* how long after the one before, -1 for none (observation only)
    reportedUntil,      \* [Chats -> time]: retry-after deadline of the latest
                        \* handleRateLimitError for a chat, 0 for none (observation only)
    reports,            \* calls of handleRateLimitError so far
    \* lifecycle of the tracker (index.ts)
    savedState,         \* bot_state.json: "absent", "tracking" or "stopped"
    subscriptions,      \* [RootIds -> listener id]: this.subscriptions, 0 for no entry
    listeners,          \* [ListenerIds -> [wallet, kind, active]]: the subscriptions
                        \* opened at the connection
    boot,               \* position of the start() call made by the entry point
    stopping,           \* wallets whose stopMonitoring awaits the removal, for the
                        \* /stop handler in progress
    handler,            \* the subscription callback in progress, if any
    reply,              \* latest reply of a command handler (observation only)
    stoppedByCommand,   \* a /stop has set isTracking to false and no /start has
                        \* followed (observation only)
    throttled,          \* -1 after a send failed with another transport error, else
                        \* retry-after seconds of the send the transport has
                        \* rejected, 0 for none (observation only)
    unsetAddresses,     \* root wallets whose MAIN_WALLET_ADDRESS_n is not set in
                        \* the environment (config.ts: the address is then "")
    \* polling backoff of the rate limiter (rateLimiter.ts)
    consecutiveErrors,  \* this.consecutiveErrors
    lastPollingTime,    \* this.lastPollingTime
    errorsInARow,       \* calls of handlePollingError since the latest
                        \* handlePollingSuccess (observation only)
    backoff,            \* what the latest handlePollingError returned, -1 for
                        \* none since the latest success (observation only)
    \* latency of the update batcher
    batchStart,         \* [RootIds -> time]: when the first update of the pending
                        \* batch of a wallet was enqueued (observation only)
    \* the ledger as the subscription callbacks see it
    ledger,             \* [balance: [RootIds -> [Mints -> balance]] on the ledger,
                        \*  events: [RootIds -> [Mints -> number delivered]],
                        \*  queries: getParsedAccountInfo calls in flight]
    \* the /start and /stop handlers, one await at a time
    commands            \* [count: commands delivered so far,
                        \*  open: the updates of one poll are still being handed
                        \*        to the handlers (no continuation has run yet),
                        \*  micro: handlers suspended at await this.saveState(),
                        \*         in the order in which they will continue,
                        \*  run: startTracking and stopTracking calls suspended
                        \*       at a request to the node,
                        \*  behind: the latest /stop that did its work was called
                        \*          while a /start was suspended, and no /start
                        \*          has done its work since (observation only)]

storeVars == <<trackedWallets, isTracking, now>>

corrVars == <<iteration, pumpfunTokens, inflight, alerts, log>>

batchVars == <<pendingUpdates, updateTimeouts, timers, flushes, trackedBalances,
               window>>

limiterVars == <<clock, globalMessageCount, lastGlobalReset, chatLimits, waiters,
                 completions, reportedUntil, reports>>

engineVars == <<savedState, subscriptions, listeners, boot, stopping, handler,
                reply, stoppedByCommand, throttled, unsetAddresses>>

pollingVars == <<consecutiveErrors, lastPollingTime, errorsInARow, backoff>>

vars == <<trackedWallets, isTracking, now,
          iteration, pumpfunTokens, inflight, alerts, log,
          pendingUpdates, updateTimeouts, timers, flushes, trackedBalances,
          window,
          clock, globalMessageCount, lastGlobalReset, chatLimits, waiters,
          completions, reportedUntil, reports,
          savedState, subscriptions, listeners, boot, stopping, handler, reply,
          stoppedByCommand, throttled, unsetAddresses,
          consecutiveErrors, lastPollingTime, errorsInARow, backoff,
          batchStart, ledger, commands>>

\* what the steps of one component leave alone
StoreOnly ==
    UNCHANGED <<corrVars, batchVars, limiterVars, engineVars, pollingVars, batchStart, ledger, commands>>

CorrOnly ==
    UNCHANGED <<storeVars, batchVars, limiterVars, engineVars, pollingVars, batchStart, ledger, commands>>

BatchOnly ==
    UNCHANGED <<trackedWallets, isTracking, corrVars, limiterVars, engineVars,
                pollingVars, batchStart, ledger, commands>>

LimiterOnly ==
    UNCHANGED <<storeVars, corrVars, batchVars, engineVars, pollingVars, batchStart, ledger, commands>>

----------------------------------------------------------------------------
(* Bounds *)

\* capacity N of one discovery store (config.ts sets 1000; scaled down)
TRACKED_WALLETS_SIZE == 2

\* last value of the clock
MaxTime == 1

\* addresses are numbered; 1 and 2 are the two root wallets
MAIN_WALLET_ADDRESS_1 == 1

MAIN_WALLET_ADDRESS_2 == 2

\* number of distinct addresses the ledger can name
MaxAddress == 3

Addresses == 1..MaxAddress

RootIds == {1, 2}

\* number of distinct contract addresses a transaction can name
MaxToken == 4

\* a contract address may be a root wallet address (1, 2) or a token (3 ..)
Tokens == 1..MaxToken

\* handlers that can be suspended at an await at the same time
MaxHandlers == 2

\* ledger events carrying a contract address, over one run
MaxObserve == 4

\* private readonly UPDATE_DELAY = 10000, in milliseconds
UPDATE_DELAY == 10000

\* the clock of the batcher advances by half a debounce window
ClockStep == UPDATE_DELAY \div 2

\* clock steps of one run of the batcher
MaxTicks == 2

\* calls of batchTokenUpdate over one run; each makes one timer
MaxEnqueue == 3

TimerIds == 1..MaxEnqueue

\* token mints and balances a balance-change event can carry
Mints == {"TK1", "TK2"}

Balances == {0, 5, 9}

\* private readonly GLOBAL_LIMIT = 30 (messages per second; scaled down)
GLOBAL_LIMIT == 2

\* private readonly CHAT_LIMIT = 1, GROUP_LIMIT = 20
CHAT_LIMIT == 1

GROUP_LIMIT == 20

\* private readonly RESET_INTERVAL = 1000, GROUP_RESET_INTERVAL = 60000
RESET_INTERVAL == 1000

GROUP_RESET_INTERVAL == 60000

\* the recipients: a direct chat and a group chat (the isGroup argument)
Chats == {"direct", "group"}

IsGroup(chatId) == chatId = "group"

\* calls of waitForRateLimit over one run
MaxCallers == 3

\* calls of handleRateLimitError over one run
MaxReports == 1

\* the limiter's clock starts later than every interval after the epoch
\* and advances by one reset interval
LimiterEpoch == 2 * GROUP_RESET_INTERVAL

LimiterStep == RESET_INTERVAL

\* clock steps of one run of the limiter
MaxLimiterTicks == 3

\* calls issued at the same instant in a run that lets every call finish,
\* and the chats they are for
LiveCallers == 2 * GLOBAL_LIMIT

LiveChats == {"direct", "direct2", "direct3", "group"}

\* clock steps that let LiveCallers calls for one group chat resolve one
\* minimum delay after the other
LiveTicks == LiveCallers * 3

\* largest retry-after, in seconds, a throttle error carries
MaxRetryAfter == 1

\* base and cap of the polling interval, cap of the error counter
POLLING_INTERVAL == 1000

MAX_POLLING_INTERVAL == 30000

MAX_BACKOFF_ATTEMPTS == 10

\* calls of handlePollingError between two successes
MaxPollErrors == 11

\* clock steps of one run of the polling backoff
MaxPollTicks == 1

----------------------------------------------------------------------------
(* Map<string, WalletTrack> as a sequence of entries in insertion order *)

RECURSIVE IndexOf(_, _)
\* position of the entry with this address, 0 when absent
IndexOf(entries, address) ==
    IF entries = <<>> THEN 0
    ELSE IF Head(entries).address = address THEN 1
    ELSE LET r == IndexOf(Tail(entries), address)
         IN  IF r = 0 THEN 0 ELSE r + 1

MapHas(entries, address) == IndexOf(entries, address) # 0

MapKeys(entries) == {entries[i].address : i \in 1..Len(entries)}

\* Map.set: an existing key keeps its position, a new key goes last
MapSet(entries, address, timestamp) ==
    LET e == [address |-> address, timestamp |-> timestamp]
        i == IndexOf(entries, address)
    IN  IF i = 0 THEN Append(entries, e)
        ELSE [entries EXCEPT ![i] = e]

\* Map.delete of the entry at position i
MapDeleteAt(entries, i) ==
    [j \in 1..(Len(entries) - 1) |-> IF j < i THEN entries[j] ELSE entries[j + 1]]

TimestampOf(entries, address) == entries[IndexOf(entries, address)].timestamp

\* faulty variant: evicts the first inserted entry whatever its timestamp
FirstInserted(entries) == 1

\* Array.from(entries).reduce((oldest, current) =>
\*     current.timestamp < oldest.timestamp ? current : oldest):
\* the first entry, in insertion order, whose timestamp is minimal
OldestEntry(entries) ==
    CHOOSE i \in 1..Len(entries) :
        /\ \A j \in 1..Len(entries) : entries[i].timestamp <= entries[j].timestamp
        /\ \A j \in 1..(i - 1) : entries[j].timestamp > entries[i].timestamp

\* faulty variant: the capacity test is off by one
CapacityExceeded(size) == size > TRACKED_WALLETS_SIZE

\* walletMap.size >= TRACKED_WALLETS_SIZE
CapacityReached(size) == size >= TRACKED_WALLETS_SIZE

\* trackNewWallet: evict the oldest entry when the map is full, then set
trackNewWallet(entries, address, timestamp) ==
    LET kept == IF CapacityReached(Len(entries))
                THEN MapDeleteAt(entries, OldestEntry(entries))
                ELSE entries
    IN  MapSet(kept, address, timestamp)

\* faulty variant: the refresh goes through the capacity test
trackUpdateWalletChecked(entries, address, timestamp) ==
    trackNewWallet(entries, address, timestamp)

\* trackUpdateWallet: set, with no capacity test
trackUpdateWallet(entries, address, timestamp) ==
    MapSet(entries, address, timestamp)

----------------------------------------------------------------------------
(* Discovery store: operations *)

StoreInit ==
    /\ trackedWallets = [id \in RootIds |-> <<>>]
    /\ isTracking = FALSE
    /\ now = 0

\* time passes
Tick ==
    /\ now < MaxTime
    /\ now' = now + 1
    /\ UNCHANGED <<trackedWallets, isTracking>>
    /\ StoreOnly

\* /start handler and startTracking: seed each store with its root wallet
StartTracking ==
    /\ ~isTracking
    /\ isTracking' = TRUE
    /\ trackedWallets' =
         [id \in RootIds |->
            MapSet(trackedWallets[id],
                   IF id = 1 THEN MAIN_WALLET_ADDRESS_1 ELSE MAIN_WALLET_ADDRESS_2,
                   now)]
    /\ UNCHANGED now
    /\ StoreOnly

\* /stop handler and stopTracking: both stores are cleared
StopTracking ==
    /\ isTracking
    /\ isTracking' = FALSE
    /\ trackedWallets' = [id \in RootIds |-> <<>>]
    /\ UNCHANGED now
    /\ StoreOnly

\* recordActivity for an address the store does not hold: trackNewWallet
RecordNew(id, address) ==
    /\ isTracking
    /\ ~MapHas(trackedWallets[id], address)
    /\ trackedWallets' =
         [trackedWallets EXCEPT ![id] = trackNewWallet(@, address, now)]
    /\ UNCHANGED <<isTracking, now>>
    /\ StoreOnly

\* recordActivity for an address the store holds: trackUpdateWallet
RecordRefresh(id, address) ==
    /\ isTracking
    /\ MapHas(trackedWallets[id], address)
    /\ trackedWallets' =
         [trackedWallets EXCEPT ![id] = trackUpdateWallet(@, address, now)]
    /\ UNCHANGED <<isTracking, now>>
    /\ StoreOnly

NextStore ==
    \/ Tick
    \/ StartTracking
    \/ StopTracking
    \/ \E id \in RootIds, address \in Addresses : RecordNew(id, address)
    \/ \E id \in RootIds, address \in Addresses : RecordRefresh(id, address)


----------------------------------------------------------------------------
(* Correlation map: pumpfunTokens *)

Unseen == 0

Confirmed == 3

Ignored == -1

IsRootAddress(ca) == ca = MAIN_WALLET_ADDRESS_1 \/ ca = MAIN_WALLET_ADDRESS_2

\* const tmpAnother = 3 - id   (part_003)
tmpAnother(id) == 3 - id

\* faulty variant: an ignore mark does not survive the next observation
BranchResettable(tokens, id, ca) ==
    IF tokens[ca] = tmpAnother(id) \/ tokens[ca] = Confirmed THEN "Confirm"
    ELSE IF IsRootAddress(ca) /\ tokens[ca] = Unseen THEN "Ignore"
    ELSE "Track"

\* faulty variant: the chain without its first branch
BranchRootUnchecked(tokens, id, ca) ==
    IF tokens[ca] = id \/ tokens[ca] = Confirmed THEN "Confirm"
    ELSE IF tokens[ca] # Ignored THEN "Track"
    ELSE "NoOp"

\* faulty variant: a confirmed entry is not recognised
BranchConfirmedForgotten(tokens, id, ca) ==
    IF IsRootAddress(ca) THEN "Ignore"
    ELSE IF tokens[ca] = id THEN "Confirm"
    ELSE IF tokens[ca] # Ignored THEN "Track"
    ELSE "NoOp"

\* the if / else-if chain of MonitorSmallWallets in index.ts (342-362)
MonitorSmallWalletsBranch(tokens, id, ca) ==
    IF IsRootAddress(ca) THEN "Ignore"
    ELSE IF tokens[ca] = id \/ tokens[ca] = Confirmed THEN "Confirm"
    ELSE IF tokens[ca] # Ignored THEN "Track"
    ELSE "NoOp"

\* the if / else-if chain of the onLogs callback in part_003 (325-351)
OnLogsBranch(tokens, id, ca) ==
    IF IsRootAddress(ca) THEN "Ignore"
    ELSE IF tokens[ca] = tmpAnother(id) \/ tokens[ca] = Confirmed THEN "Confirm"
    ELSE IF tokens[ca] # Ignored THEN "Track"
    ELSE "NoOp"

Branch(tokens, id, ca) ==
    IF iteration = "index" THEN MonitorSmallWalletsBranch(tokens, id, ca)
    ELSE OnLogsBranch(tokens, id, ca)

Idle == [id |-> 0, ca |-> 0, pc |-> "idle"]

BusySlots == {h \in 1..MaxHandlers : inflight[h] # Idle}

RECURSIVE SumLen(_, _)
SumLen(f, keys) ==
    IF keys = {} THEN 0
    ELSE LET k == CHOOSE x \in keys : TRUE
         IN  Len(f[k]) + SumLen(f, keys \ {k})

\* handlers started so far
Observed == SumLen(log, Tokens) + Cardinality(BusySlots)

CorrInit ==
    /\ iteration \in {"index", "part_003"}
    /\ pumpfunTokens = [t \in Tokens |-> Unseen]
    /\ inflight = [h \in 1..MaxHandlers |-> Idle]
    /\ alerts = [t \in Tokens |-> 0]
    /\ log = [t \in Tokens |-> <<>>]

Returned(id, ca, action) == [log EXCEPT ![ca] = Append(@, [id |-> id, action |-> action])]

\* a handler that takes the first branch: pumpfunTokens.set(CA_ADDRESS, -1)
ObserveIgnore(id, ca) ==
    /\ Observed < MaxObserve
    /\ Branch(pumpfunTokens, id, ca) = "Ignore"
    /\ pumpfunTokens' = [pumpfunTokens EXCEPT ![ca] = Ignored]
    /\ log' = Returned(id, ca, "Ignore")
    /\ UNCHANGED <<iteration, inflight, alerts>>
    /\ CorrOnly

\* faulty variant: the last branch sets the entry of every token
ObserveTrackAll(id, ca) ==
    /\ Observed < MaxObserve
    /\ Branch(pumpfunTokens, id, ca) = "Track"
    /\ pumpfunTokens' = [t \in Tokens |-> id]
    /\ log' = Returned(id, ca, "Track")
    /\ UNCHANGED <<iteration, inflight, alerts>>
    /\ CorrOnly

\* a handler that takes the last branch: pumpfunTokens.set(CA_ADDRESS, id)
ObserveTrack(id, ca) ==
    /\ Observed < MaxObserve
    /\ Branch(pumpfunTokens, id, ca) = "Track"
    /\ pumpfunTokens' = [pumpfunTokens EXCEPT ![ca] = id]
    /\ log' = Returned(id, ca, "Track")
    /\ UNCHANGED <<iteration, inflight, alerts>>
    /\ CorrOnly

\* no branch applies (the entry is -1 and the address is no root wallet):
\* the handler changes nothing; no reachable state offers this case, see
\* NoOpBranchNeverTaken

\* a handler that takes the second branch suspends at await getTokenInfo
ObserveConfirm(id, ca) ==
    /\ Observed < MaxObserve
    /\ Branch(pumpfunTokens, id, ca) = "Confirm"
    /\ \E h \in 1..MaxHandlers :
          /\ inflight[h] = Idle
          /\ \A g \in 1..(h - 1) : inflight[g] # Idle
          /\ inflight' = [inflight EXCEPT ![h] = [id |-> id, ca |-> ca, pc |-> "getTokenInfo"]]
    /\ UNCHANGED <<iteration, pumpfunTokens, alerts, log>>
    /\ CorrOnly

\* getTokenInfo returns a record.  index.ts: log, then set(CA_ADDRESS, 3).
\* part_003: sendTelegramNotification hands the alert to bot.sendMessage and
\* the handler suspends until the send settles.
TokenInfoReturns(h) ==
    /\ inflight[h].pc = "getTokenInfo"
    /\ IF iteration = "index"
       THEN /\ pumpfunTokens' = [pumpfunTokens EXCEPT ![inflight[h].ca] = Confirmed]
            /\ log' = Returned(inflight[h].id, inflight[h].ca, "Confirm")
            /\ inflight' = [inflight EXCEPT ![h] = Idle]
            /\ UNCHANGED alerts
       ELSE /\ alerts' = [alerts EXCEPT ![inflight[h].ca] = @ + 1]
            /\ inflight' = [inflight EXCEPT ![h].pc = "sendMessage"]
            /\ UNCHANGED <<pumpfunTokens, log>>
    /\ UNCHANGED iteration
    /\ CorrOnly

\* the earlier getTokenInfo returns null on an error (part_002: 280-283):
\* destructuring throws, the handler's catch logs, nothing is sent and the
\* entry is not set; the current one (utils.ts 76-122) always returns a record
TokenInfoFails(h) ==
    /\ iteration = "part_003"
    /\ inflight[h].pc = "getTokenInfo"
    /\ log' = Returned(inflight[h].id, inflight[h].ca, "Error")
    /\ inflight' = [inflight EXCEPT ![h] = Idle]
    /\ UNCHANGED <<iteration, pumpfunTokens, alerts>>
    /\ CorrOnly

\* part_003: bot.sendMessage settles (a rejection is caught inside
\* sendTelegramNotification); the handler logs and sets the entry to 3
SendSettles(h) ==
    /\ inflight[h].pc = "sendMessage"
    /\ pumpfunTokens' = [pumpfunTokens EXCEPT ![inflight[h].ca] = Confirmed]
    /\ log' = Returned(inflight[h].id, inflight[h].ca, "Confirm")
    /\ inflight' = [inflight EXCEPT ![h] = Idle]
    /\ UNCHANGED <<iteration, alerts>>
    /\ CorrOnly

NextCorr ==
    \/ \E id \in RootIds, ca \in Tokens : ObserveIgnore(id, ca)
    \/ \E id \in RootIds, ca \in Tokens : ObserveTrack(id, ca)
    \/ \E id \in RootIds, ca \in Tokens : ObserveConfirm(id, ca)
    \/ \E h \in 1..MaxHandlers : TokenInfoReturns(h)
    \/ \E h \in 1..MaxHandlers : TokenInfoFails(h)
    \/ \E h \in 1..MaxHandlers : SendSettles(h)

\* the last branch guard of both chains is never false when it is reached
NoOpBranchNeverTaken ==
    \A id \in RootIds, ca \in Tokens : Branch(pumpfunTokens, id, ca) # "NoOp"

----------------------------------------------------------------------------
(* Update batcher: batchTokenUpdate (index.ts 513-584) *)

RECURSIVE PendingIndex(_, _)
\* position of the entry of this mint in the pending map, 0 when absent
PendingIndex(entries, mint) ==
    IF entries = <<>> THEN 0
    ELSE IF Head(entries).mint = mint THEN 1
    ELSE LET r == PendingIndex(Tail(entries), mint)
         IN  IF r = 0 THEN 0 ELSE r + 1

\* faulty variant: an update of a mint already pending is dropped (first balance wins)
PendingSetKeepsFirst(entries, mint, balance) ==
    IF PendingIndex(entries, mint) = 0
    THEN Append(entries, [mint |-> mint, balance |-> balance])
    ELSE entries

\* walletUpdates.set(tokenMint, { balance, signature }): the latest balance
\* replaces the pending one (the signature is never read again)
PendingSet(entries, mint, balance) ==
    LET e == [mint |-> mint, balance |-> balance]
        i == PendingIndex(entries, mint)
    IN  IF i = 0 THEN Append(entries, e) ELSE [entries EXCEPT ![i] = e]

\* faulty variant: the running timer is left alone
clearTimeoutSkipped(ts, id) == ts

\* if (existingTimeout) clearTimeout(existingTimeout): cancels a timer that
\* has not fired; no effect on one that has
clearTimeout(ts, id) ==
    IF id # 0 /\ ts[id].state = "scheduled"
    THEN [ts EXCEPT ![id] = [wallet |-> 0, fireAt |-> 0, state |-> "cleared"]]
    ELSE ts

\* setTimeout(callback, delay) called at time t
setTimeout(ts, id, wallet, delay, t) ==
    [ts EXCEPT ![id] = [wallet |-> wallet, fireAt |-> t + delay, state |-> "scheduled"]]

UnusedTimers == {t \in TimerIds : timers[t].state = "unused"}

Scheduled(wallet) ==
    {t \in TimerIds : timers[t].state = "scheduled" /\ timers[t].wallet = wallet}

NoWindow == [m \in Mints |-> [n |-> 0, last |-> 0]]

IdleFlush ==
    [wallet |-> 0, updates |-> <<>>, i |-> 0, prev |-> 0, newTokens |-> {},
     balanceChanges |-> {}, pc |-> "idle", seen |-> NoWindow, failed |-> {}]

\* a callback suspended at await this.bot.sendMessage(chatId, message): the
\* message lists the new tokens and the balance changes
Sending(wallet, newTokens, balanceChanges, seen) ==
    [IdleFlush EXCEPT !.wallet = wallet, !.newTokens = newTokens,
                      !.balanceChanges = balanceChanges, !.pc = "sendMessage",
                      !.seen = seen]

\* if (previousBalance === 0 && balance > 0) ... else if (balance !== previousBalance)
Classify(prev, balance) ==
    IF prev = 0 /\ balance > 0 THEN "new"
    ELSE IF balance # prev THEN "changed"
    ELSE "none"

BatchInit ==
    /\ batchStart = [w \in RootIds |-> 0]
    /\ pendingUpdates = [w \in RootIds |-> <<>>]
    /\ updateTimeouts = [w \in RootIds |-> 0]
    /\ timers = [t \in TimerIds |-> [wallet |-> 0, fireAt |-> 0, state |-> "unused"]]
    /\ flushes = [t \in TimerIds |-> IdleFlush]
    /\ trackedBalances = [w \in RootIds |-> [m \in Mints |-> 0]]
    /\ window = [w \in RootIds |-> NoWindow]

\* time passes
Advance ==
    /\ now < MaxTicks * ClockStep
    /\ now' = now + ClockStep
    /\ UNCHANGED batchVars
    /\ BatchOnly

\* batchTokenUpdate(walletNumber, tokenMint, balance, signature): what it
\* does to the pending map and the timers
Enqueue(wallet, mint, balance) ==
    /\ UnusedTimers # {}
    /\ LET id == CHOOSE t \in UnusedTimers : \A u \in UnusedTimers : t <= u
       IN  /\ pendingUpdates' =
                [pendingUpdates EXCEPT ![wallet] = PendingSet(@, mint, balance)]
           /\ timers' = setTimeout(clearTimeout(timers, updateTimeouts[wallet]),
                                   id, wallet, UPDATE_DELAY, now)
           /\ updateTimeouts' = [updateTimeouts EXCEPT ![wallet] = id]
    /\ window' = [window EXCEPT ![wallet][mint] =
                     [n |-> IF @.n = 0 THEN 1 ELSE 2, last |-> balance]]
    /\ UNCHANGED <<flushes, trackedBalances, now>>

\* a call of batchTokenUpdate on its own
batchTokenUpdate(wallet, mint, balance) ==
    /\ Enqueue(wallet, mint, balance)
    /\ BatchOnly

\* faulty variant: the callback leaves the map it has taken in place
UpdatesLeftPending(entries) == entries

\* this.pendingUpdates.set(walletNumber, new Map()): what the callback leaves
\* in place of the map it has taken
ClearedUpdates(entries) == <<>>

\* the timeout callback starts: it takes the pending map, installs an empty
\* one, reads the previous balance of the first entry and suspends at
\* await getTokenInfo; with nothing pending it goes straight to finally
TimeoutFires(t) ==
    /\ timers[t].state = "scheduled"
    /\ now >= timers[t].fireAt
    /\ LET w       == timers[t].wallet
           updates == pendingUpdates[w]
       IN  /\ timers' = [timers EXCEPT ![t] = [wallet |-> 0, fireAt |-> 0, state |-> "fired"]]
           /\ pendingUpdates' = [pendingUpdates EXCEPT ![w] = ClearedUpdates(@)]
           /\ window' = [window EXCEPT ![w] = NoWindow]
           /\ IF updates = <<>>
              THEN /\ UNCHANGED flushes
                   /\ updateTimeouts' = [updateTimeouts EXCEPT ![w] = 0]
              ELSE /\ flushes' = [flushes EXCEPT ![t] =
                         [wallet |-> w, updates |-> updates, i |-> 1,
                          prev |-> trackedBalances[w][updates[1].mint],
                          newTokens |-> {}, balanceChanges |-> {},
                          pc |-> "getTokenInfo", seen |-> window[w],
                          failed |-> {}]]
                   /\ UNCHANGED updateTimeouts
    /\ UNCHANGED <<trackedBalances, now>>
    /\ BatchOnly

\* getTokenInfo returns a record for the current entry (utils.ts 76-122: it
\* catches every error and returns a record): classify the entry, store its
\* balance, then go on to the next entry, or build the message and send it,
\* or with nothing to report run finally, which deletes the stored handle
FlushTokenInfoReturns(t) ==
    /\ flushes[t].pc = "getTokenInfo"
    /\ LET f    == flushes[t]
           w    == f.wallet
           e    == f.updates[f.i]
           kind == Classify(f.prev, e.balance)
           newT == IF kind = "new"
                   THEN f.newTokens \cup {[mint |-> e.mint, balance |-> e.balance]}
                   ELSE f.newTokens
           chg  == IF kind = "changed"
                   THEN f.balanceChanges \cup
                          {[mint |-> e.mint, prev |-> f.prev, balance |-> e.balance]}
                   ELSE f.balanceChanges
       IN  /\ trackedBalances' = [trackedBalances EXCEPT ![w][e.mint] = e.balance]
           /\ IF f.i < Len(f.updates)
              THEN /\ flushes' = [flushes EXCEPT ![t] =
                         [f EXCEPT !.i = f.i + 1,
                                   !.prev = trackedBalances'[w][f.updates[f.i + 1].mint],
                                   !.newTokens = newT,
                                   !.balanceChanges = chg]]
                   /\ UNCHANGED updateTimeouts
              ELSE IF newT \cup chg # {}
              THEN /\ flushes' = [flushes EXCEPT ![t] = Sending(w, newT, chg, f.seen)]
                   /\ UNCHANGED updateTimeouts
              ELSE /\ flushes' = [flushes EXCEPT ![t] = IdleFlush]
                   /\ updateTimeouts' = [updateTimeouts EXCEPT ![w] = 0]
    /\ UNCHANGED <<pendingUpdates, timers, window, now>>
    /\ BatchOnly

\* bot.sendMessage settles (a rejection goes to the catch); finally deletes
\* the stored handle
FlushSendSettles(t) ==
    /\ flushes[t].pc = "sendMessage"
    /\ flushes' = [flushes EXCEPT ![t] = IdleFlush]
    /\ updateTimeouts' = [updateTimeouts EXCEPT ![flushes[t].wallet] = 0]
    /\ UNCHANGED <<pendingUpdates, timers, trackedBalances, window, now>>
    /\ BatchOnly

\* a call of batchTokenUpdate, noting when the pending batch was opened
batchTokenUpdateAt(wallet, mint, balance) ==
    /\ Enqueue(wallet, mint, balance)
    /\ batchStart' = [batchStart EXCEPT ![wallet] =
                         IF pendingUpdates[wallet] = <<>> THEN now ELSE @]
    /\ UNCHANGED <<trackedWallets, isTracking, corrVars, limiterVars, engineVars,
                   pollingVars, ledger, commands>>

\* the balance enqueued in the runs that look at the latency only
LatencyBalances == {5}

NextLatency ==
    \/ Advance
    \/ \E w \in RootIds, m \in Mints, b \in LatencyBalances : batchTokenUpdateAt(w, m, b)
    \/ \E t \in TimerIds : TimeoutFires(t)
    \/ \E t \in TimerIds : FlushTokenInfoReturns(t)
    \/ \E t \in TimerIds : FlushSendSettles(t)

\* getTokenInfo of utils.ts fails inside (76-122): its catch returns the
\* record with name 'Unknown', and the callback goes on with it as with any
\* other record
FlushTokenInfoFails(t) ==
    /\ iteration = "index"
    /\ flushes[t].pc = "getTokenInfo"
    /\ LET f    == flushes[t]
           w    == f.wallet
           e    == f.updates[f.i]
           kind == Classify(f.prev, e.balance)
           newT == IF kind = "new"
                   THEN f.newTokens \cup {[mint |-> e.mint, balance |-> e.balance]}
                   ELSE f.newTokens
           chg  == IF kind = "changed"
                   THEN f.balanceChanges \cup
                          {[mint |-> e.mint, prev |-> f.prev, balance |-> e.balance]}
                   ELSE f.balanceChanges
           bad  == f.failed \cup {e.mint}
       IN  /\ trackedBalances' = [trackedBalances EXCEPT ![w][e.mint] = e.balance]
           /\ IF f.i < Len(f.updates)
              THEN /\ flushes' = [flushes EXCEPT ![t] =
                         [f EXCEPT !.i = f.i + 1,
                                   !.prev = trackedBalances'[w][f.updates[f.i + 1].mint],
                                   !.newTokens = newT,
                                   !.balanceChanges = chg,
                                   !.failed = bad]]
                   /\ UNCHANGED updateTimeouts
              ELSE IF newT \cup chg # {}
              THEN /\ flushes' = [flushes EXCEPT ![t] =
                         [Sending(w, newT, chg, f.seen) EXCEPT !.failed = bad]]
                   /\ UNCHANGED updateTimeouts
              ELSE /\ flushes' = [flushes EXCEPT ![t] = IdleFlush]
                   /\ updateTimeouts' = [updateTimeouts EXCEPT ![w] = 0]
    /\ UNCHANGED <<pendingUpdates, timers, window, now>>
    /\ BatchOnly

\* getTokenInfo of part_002 fails (177-284): its outer catch returns null,
\* tokenInfo.isPumpToken throws in the callback, the catch around the whole
\* loop logs the error and finally deletes the stored handle: the entry and
\* the entries after it are dropped and no message is built
FlushTokenInfoNull(t) ==
    /\ iteration = "part_003"
    /\ flushes[t].pc = "getTokenInfo"
    /\ flushes' = [flushes EXCEPT ![t] = IdleFlush]
    /\ updateTimeouts' = [updateTimeouts EXCEPT ![flushes[t].wallet] = 0]
    /\ UNCHANGED <<pendingUpdates, timers, trackedBalances, window, now>>
    /\ BatchOnly

\* the batcher with lookups that can fail; iteration says which getTokenInfo
\* the callback is built with: "index" the one of utils.ts, "part_003" the
\* one of part_002
NextLookup ==
    \/ Advance
    \/ \E w \in RootIds, m \in Mints, b \in Balances : batchTokenUpdate(w, m, b)
    \/ \E t \in TimerIds : TimeoutFires(t)
    \/ \E t \in TimerIds : FlushTokenInfoReturns(t)
    \/ \E t \in TimerIds : FlushTokenInfoFails(t)
    \/ \E t \in TimerIds : FlushTokenInfoNull(t)
    \/ \E t \in TimerIds : FlushSendSettles(t)

\* a whole debounce window passes
AdvanceWindow ==
    /\ now < MaxTicks * UPDATE_DELAY
    /\ now' = now + UPDATE_DELAY
    /\ UNCHANGED batchVars
    /\ BatchOnly

\* the batcher over several windows in a row
NextFlushes ==
    \/ AdvanceWindow
    \/ \E w \in RootIds, m \in Mints, b \in Balances : batchTokenUpdate(w, m, b)
    \/ \E t \in TimerIds : TimeoutFires(t)
    \/ \E t \in TimerIds : FlushTokenInfoReturns(t)
    \/ \E t \in TimerIds : FlushSendSettles(t)

NextBatch ==
    \/ Advance
    \/ \E w \in RootIds, m \in Mints, b \in Balances : batchTokenUpdate(w, m, b)
    \/ \E t \in TimerIds : TimeoutFires(t)
    \/ \E t \in TimerIds : FlushTokenInfoReturns(t)
    \/ \E t \in TimerIds : FlushSendSettles(t)

----------------------------------------------------------------------------
(* Lifecycle: /start, /stop, start(), monitorTransactions, stopMonitoring
   (index.ts 66-116, 152-172, 243-309, 613-691, 786-808) *)

\* runs of monitorTransactions for each root wallet, over one run of the
\* program
MaxSessions == 2

\* /start and /stop commands delivered, over one run of the program
MaxCommands == 2

\* two subscriptions are opened for each root wallet by each run of
\* monitorTransactions
ListenerIds == 1..(2 * Cardinality(RootIds) * MaxSessions)

NoListener == [wallet |-> 0, kind |-> "none", active |-> FALSE]

NoHandler == [wallet |-> 0, kind |-> "none"]

\* token accounts and balances the ledger reports to the lifecycle
EngineMints == {"TK1"}

EngineBalances == {5}

\* no point query in this slot
NoQuery == [wallet |-> 0, mint |-> "none", pc |-> "idle", result |-> 0]

\* no command delivered yet
NoCommands ==
    [count |-> 0, open |-> FALSE, micro |-> <<>>, run |-> <<>>, behind |-> FALSE]

\* nothing delivered and nothing asked yet
LedgerInit ==
    [balance |-> [w \in RootIds |-> [m \in EngineMints |-> 0]],
     events  |-> [w \in RootIds |-> [m \in EngineMints |-> 0]],
     queries |-> [i \in 1..MaxHandlers |-> NoQuery]]

\* the constructor, with this content of the state file: isTracking = false,
\* subscriptions = {}, loadState() copies isTracking from the file and
\* starts nothing; the entry point then calls start()
Constructed(file) ==
    /\ savedState = file
    /\ ledger = LedgerInit
    /\ commands = NoCommands
    /\ subscriptions = [w \in RootIds |-> 0]
    /\ listeners = [l \in ListenerIds |-> NoListener]
    /\ boot = "displayCurrentBalances"
    /\ stopping = {}
    /\ handler = NoHandler
    /\ reply = "none"
    /\ stoppedByCommand = FALSE
    /\ throttled = 0

\* both root wallet addresses are set in the environment
Configured == unsetAddresses = {}

\* no state file
EngineFresh == Constructed("absent") /\ Configured

EngineInit ==
    /\ \E file \in {"absent", "tracking", "stopped"} : Constructed(file)
    /\ Configured
    /\ trackedWallets = [id \in RootIds |-> <<>>]
    /\ isTracking = (savedState = "tracking")
    /\ now = 0

\* every lifecycle step leaves these alone
EngineOnly ==
    UNCHANGED <<trackedWallets, corrVars, limiterVars, throttled, unsetAddresses,
                pollingVars, batchStart, ledger, commands>>

NoBatch == UNCHANGED <<batchVars, now>>

\* faulty variant: the file is written with the value isTracking had before
\* the handler changed it
saveStateStale(tracking) == IF tracking THEN "stopped" ELSE "tracking"

\* saveState(): writes isTracking to the state file
saveState(tracking) == IF tracking THEN "tracking" ELSE "stopped"

\* startTracking(): if (!this.isTracking) { ... monitorTransactions ... }
startTrackingRuns(tracking) == ~tracking

\* faulty variant: the handler does not look at isTracking
StartWanted(tracking) == TRUE

\* /start handler: if (!this.isTracking)
StartNeeded(tracking) == ~tracking

\* /stop handler: if (this.isTracking)
StopNeeded(tracking) == tracking

\* connection.removeAccountChangeListener(id): the callback is dropped
Remove(ls, id) == IF id = 0 THEN ls ELSE [ls EXCEPT ![id].active = FALSE]

\* monitorTransactions after its awaits: onAccountChange and
\* onProgramAccountChange open two subscriptions, of which the second is stored
Subscribe(ls, wallet) ==
    LET free == {l \in ListenerIds : ls[l].kind = "none"}
        a    == CHOOSE l \in free : \A u \in free : l <= u
        rest == free \ {a}
        b    == CHOOSE l \in rest : \A u \in rest : l <= u
    IN  [ls EXCEPT ![a] = [wallet |-> wallet, kind |-> "account", active |-> TRUE],
                   ![b] = [wallet |-> wallet, kind |-> "program", active |-> TRUE]]

Stored(ls, wallet) ==
    CHOOSE l \in ListenerIds :
        /\ ls[l].wallet = wallet /\ ls[l].kind = "program"
        /\ \A u \in ListenerIds :
              ls[u].wallet = wallet /\ ls[u].kind = "program" => u <= l

\* the token accounts a query returns: none, or one of EngineMints
EnqueueOrNot(wallet) ==
    \/ UNCHANGED batchVars
    \/ \E m \in EngineMints, b \in EngineBalances : Enqueue(wallet, m, b)

\* start(): displayCurrentBalances has its balances and sends the summary
BootBalancesReturn ==
    /\ boot = "displayCurrentBalances"
    /\ boot' = "sendMessage"
    /\ UNCHANGED <<isTracking, savedState, subscriptions, listeners, stopping,
                   handler, reply, stoppedByCommand>>
    /\ NoBatch
    /\ EngineOnly

\* start(): the summary send settles; monitorTransactions(1) finds no stored
\* subscription and awaits the token accounts of wallet 1
BootSendSettles ==
    /\ boot = "sendMessage"
    /\ boot' = "monitorTransactions1"
    /\ listeners' = Remove(listeners, subscriptions[1])
    /\ subscriptions' = [subscriptions EXCEPT ![1] = 0]
    /\ UNCHANGED <<isTracking, savedState, stopping, handler, reply,
                   stoppedByCommand>>
    /\ NoBatch
    /\ EngineOnly

\* monitorTransactions(w) of start(): the token accounts arrive and are
\* enqueued, both subscriptions are opened, the token subscription is stored;
\* after wallet 1 comes wallet 2.  With the address of w unset,
\* new PublicKey("") throws at once and the catch only logs
BootMonitored(w) ==
    /\ boot = IF w = 1 THEN "monitorTransactions1" ELSE "monitorTransactions2"
    /\ boot' = IF w = 1 THEN "monitorTransactions2" ELSE "done"
    /\ IF w \in unsetAddresses
       THEN UNCHANGED <<batchVars, listeners, subscriptions>>
       ELSE /\ EnqueueOrNot(w)
            /\ LET opened == Subscribe(listeners, w)
               IN  IF w = 1
                   THEN /\ listeners' = Remove(opened, subscriptions[2])
                        /\ subscriptions' =
                              [subscriptions EXCEPT ![1] = Stored(opened, 1), ![2] = 0]
                   ELSE /\ listeners' = opened
                        /\ subscriptions' =
                              [subscriptions EXCEPT ![2] = Stored(opened, 2)]
    /\ UNCHANGED <<isTracking, savedState, stopping, handler, reply,
                   stoppedByCommand, now>>
    /\ EngineOnly

\* /start: when not tracking, set isTracking, save the state, call
\* startTracking (which looks at isTracking again) and reply; otherwise only reply
StartCommand ==
    /\ IF StartNeeded(isTracking)
       THEN /\ isTracking' = TRUE
            /\ savedState' = saveState(TRUE)
            /\ boot' = IF startTrackingRuns(TRUE) THEN "monitorTransactions1" ELSE boot
            /\ reply' = "started"
            /\ stoppedByCommand' = FALSE
       ELSE /\ reply' = "already active"
            /\ UNCHANGED <<isTracking, savedState, boot, stoppedByCommand>>
    /\ UNCHANGED <<subscriptions, listeners, stopping, handler>>
    /\ NoBatch
    /\ EngineOnly

\* /stop: when tracking, clear isTracking, save the state and call
\* stopTracking: each stopMonitoring with a stored subscription removes it and
\* awaits; with nothing stored the handler replies at once.  Otherwise only reply
StopCommand ==
    /\ stopping = {}
    /\ IF StopNeeded(isTracking)
       THEN /\ isTracking' = FALSE
            /\ savedState' = saveState(FALSE)
            /\ stoppedByCommand' = TRUE
            /\ listeners' = Remove(Remove(listeners, subscriptions[1]), subscriptions[2])
            /\ stopping' = {w \in RootIds : subscriptions[w] # 0}
            /\ reply' = IF stopping' = {} THEN "stopped" ELSE reply
       ELSE /\ reply' = "already stopped"
            /\ UNCHANGED <<isTracking, savedState, stoppedByCommand, listeners, stopping>>
    /\ UNCHANGED <<subscriptions, boot, handler>>
    /\ NoBatch
    /\ EngineOnly

\* stopMonitoring(w) after await removeAccountChangeListener: the entry is
\* deleted; when both are through the /stop handler replies
StopMonitoringReturns(w) ==
    /\ w \in stopping
    /\ subscriptions' = [subscriptions EXCEPT ![w] = 0]
    /\ stopping' = stopping \ {w}
    /\ reply' = IF stopping' = {} THEN "stopped" ELSE reply
    /\ UNCHANGED <<isTracking, savedState, listeners, boot, handler, stoppedByCommand>>
    /\ NoBatch
    /\ EngineOnly

\* a subscription callback starts: if (!this.isTracking) return; then it
\* awaits a query (the token accounts of the wallet, or the changed account)
LedgerEvent(l) ==
    /\ listeners[l].active
    /\ handler = NoHandler
    /\ handler' = IF isTracking
                  THEN [wallet |-> listeners[l].wallet, kind |-> listeners[l].kind]
                  ELSE handler
    /\ UNCHANGED <<isTracking, savedState, subscriptions, listeners, boot, stopping,
                   reply, stoppedByCommand>>
    /\ NoBatch
    /\ EngineOnly

\* the query of the callback returns: what it found is enqueued
HandlerReturns ==
    /\ handler # NoHandler
    /\ EnqueueOrNot(handler.wallet)
    /\ handler' = NoHandler
    /\ UNCHANGED <<isTracking, savedState, subscriptions, listeners, boot, stopping,
                   reply, stoppedByCommand, now>>
    /\ EngineOnly

\* bot.sendMessage of a flush is rejected by the transport with "retry after
\* s": the catch logs the error, finally deletes the stored handle
FlushSendRejected(t, s) ==
    /\ flushes[t].pc = "sendMessage"
    /\ throttled = 0
    /\ throttled' = s
    /\ flushes' = [flushes EXCEPT ![t] = IdleFlush]
    /\ updateTimeouts' = [updateTimeouts EXCEPT ![flushes[t].wallet] = 0]
    /\ UNCHANGED <<pendingUpdates, timers, trackedBalances, window, now>>
    /\ UNCHANGED <<trackedWallets, isTracking, corrVars, limiterVars, pollingVars,
                   batchStart, ledger, commands>>
    /\ UNCHANGED <<savedState, subscriptions, listeners, boot, stopping, handler,
                   reply, stoppedByCommand, unsetAddresses>>

\* bot.sendMessage of a flush is rejected with any other transport error
\* (throttled -1): the catch logs the error, finally deletes the stored handle
FlushSendFails(t) ==
    /\ flushes[t].pc = "sendMessage"
    /\ throttled = 0
    /\ throttled' = -1
    /\ flushes' = [flushes EXCEPT ![t] = IdleFlush]
    /\ updateTimeouts' = [updateTimeouts EXCEPT ![flushes[t].wallet] = 0]
    /\ UNCHANGED <<pendingUpdates, timers, trackedBalances, window, now>>
    /\ UNCHANGED <<trackedWallets, isTracking, corrVars, limiterVars, pollingVars,
                   batchStart, ledger, commands>>
    /\ UNCHANGED <<savedState, subscriptions, listeners, boot, stopping, handler,
                   reply, stoppedByCommand, unsetAddresses>>

\* the query of a subscription callback is rejected, or its answer is not
\* what the callback expects: the catch of the callback logs the error
HandlerFails ==
    /\ handler # NoHandler
    /\ handler' = NoHandler
    /\ UNCHANGED <<isTracking, savedState, subscriptions, listeners, boot, stopping,
                   reply, stoppedByCommand>>
    /\ NoBatch
    /\ EngineOnly

\* tracking with lookups, queries and sends that can fail
NextFailures ==
    \/ BootBalancesReturn
    \/ BootSendSettles
    \/ \E w \in RootIds : BootMonitored(w)
    \/ \E l \in ListenerIds : LedgerEvent(l)
    \/ HandlerReturns
    \/ HandlerFails
    \/ Advance
    \/ \E t \in TimerIds : TimeoutFires(t)
    \/ \E t \in TimerIds : FlushTokenInfoReturns(t)
    \/ \E t \in TimerIds : FlushTokenInfoFails(t)
    \/ \E t \in TimerIds : FlushSendSettles(t)
    \/ \E t \in TimerIds : FlushSendFails(t)

----------------------------------------------------------------------------
(* /start and /stop, one await at a time (index.ts 152-172, 274-309, 613-691,
   786-797).  The bot hands the updates of one poll to the handlers one after
   the other; a handler runs up to its first await and its continuation is
   queued behind those that are already waiting. *)

\* what a step of a command handler leaves alone
CommandOnly ==
    UNCHANGED <<trackedWallets, corrVars, limiterVars, throttled, unsetAddresses,
                pollingVars, batchStart, ledger, boot, stopping, handler, now>>

\* no continuation is waiting: the next thing to run is an answer of the
\* node or a new poll
Settled == commands.micro = <<>>

\* an update can be handed to its handler: as the first of a poll, or behind
\* the others of the same poll
Deliverable ==
    /\ commands.count < MaxCommands
    /\ Settled \/ commands.open

\* subscriptions that can still be opened
FreeListeners == {l \in ListenerIds : listeners[l].kind = "none"}

\* wallets for which a run of monitorTransactions has not subscribed yet
Subscribing ==
    {<<i, w>> \in (DOMAIN commands.run) \X RootIds :
        commands.run[i].kind = "start" /\ commands.run[i].at[w] # "done"}

\* the call run[i] has this left to do for wallet w; when nothing is left
\* for any wallet the call returns
Proceed(run, i, w, pc) ==
    LET r == [run[i] EXCEPT !.at[w] = pc]
    IN  IF \A v \in RootIds : r.at[v] = "done"
        THEN SubSeq(run, 1, i - 1) \o SubSeq(run, i + 1, Len(run))
        ELSE [run EXCEPT ![i] = r]

\* a /start handler is suspended at one of its awaits
StartSuspended ==
    \/ \E k \in DOMAIN commands.micro : commands.micro[k] = "start"
    \/ \E i \in DOMAIN commands.run : commands.run[i].kind = "start"

\* /start up to await this.saveState(): when not tracking, isTracking is set
\* and the state written; otherwise the reply is sent
StartDelivered ==
    /\ Deliverable
    /\ IF StartNeeded(isTracking)
       THEN /\ isTracking' = TRUE
            /\ savedState' = saveState(TRUE)
            /\ stoppedByCommand' = FALSE
            /\ commands' = [commands EXCEPT !.count = @ + 1,
                                            !.open = TRUE,
                                            !.micro = Append(@, "start"),
                                            !.behind = FALSE]
            /\ UNCHANGED reply
       ELSE /\ reply' = "already active"
            /\ commands' = [commands EXCEPT !.count = @ + 1]
            /\ UNCHANGED <<isTracking, savedState, stoppedByCommand>>
    /\ UNCHANGED <<subscriptions, listeners>>
    /\ NoBatch
    /\ CommandOnly

\* /stop up to await this.saveState(): when tracking, isTracking is cleared
\* and the state written; otherwise the reply is sent
StopDelivered ==
    /\ Deliverable
    /\ IF StopNeeded(isTracking)
       THEN /\ isTracking' = FALSE
            /\ savedState' = saveState(FALSE)
            /\ stoppedByCommand' = TRUE
            /\ commands' = [commands EXCEPT !.count = @ + 1,
                                            !.open = TRUE,
                                            !.micro = Append(@, "stop"),
                                            !.behind = StartSuspended]
            /\ UNCHANGED reply
       ELSE /\ reply' = "already stopped"
            /\ commands' = [commands EXCEPT !.count = @ + 1]
            /\ UNCHANGED <<isTracking, savedState, stoppedByCommand>>
    /\ UNCHANGED <<subscriptions, listeners>>
    /\ NoBatch
    /\ CommandOnly

\* /start continues behind await this.saveState() and calls startTracking:
\* with isTracking cleared in the meantime it sets isTracking, clears both
\* balance maps and calls monitorTransactions for both wallets, each of
\* which asks for the removal of the stored subscription or, with nothing
\* stored, for the token accounts; otherwise it returns and the reply is sent
StartContinues ==
    /\ ~Settled
    /\ Head(commands.micro) = "start"
    /\ IF startTrackingRuns(isTracking)
       THEN /\ Cardinality(FreeListeners) >=
                  2 * (Cardinality(Subscribing) + Cardinality(RootIds))
            /\ isTracking' = TRUE
            /\ stoppedByCommand' = FALSE
            /\ trackedBalances' = [w \in RootIds |-> [m \in Mints |-> 0]]
            /\ listeners' = Remove(Remove(listeners, subscriptions[1]), subscriptions[2])
            /\ commands' =
                  [commands EXCEPT
                     !.open = FALSE,
                     !.micro = Tail(@),
                     !.run = Append(@,
                        [kind |-> "start",
                         at |-> [w \in RootIds |->
                                   IF subscriptions[w] # 0 THEN "removing"
                                                           ELSE "balances"]])]
            /\ UNCHANGED reply
       ELSE /\ reply' = "started"
            /\ commands' = [commands EXCEPT !.open = FALSE, !.micro = Tail(@)]
            /\ UNCHANGED <<isTracking, stoppedByCommand, trackedBalances, listeners>>
    /\ UNCHANGED <<savedState, subscriptions>>
    /\ UNCHANGED <<pendingUpdates, updateTimeouts, timers, flushes, window>>
    /\ CommandOnly

\* /stop continues behind await this.saveState() and calls stopTracking:
\* isTracking is cleared and stopMonitoring asks for the removal of each
\* stored subscription; with nothing stored the reply is sent
StopContinues ==
    /\ ~Settled
    /\ Head(commands.micro) = "stop"
    /\ isTracking' = FALSE
    /\ stoppedByCommand' = TRUE
    /\ listeners' = Remove(Remove(listeners, subscriptions[1]), subscriptions[2])
    /\ LET left == {w \in RootIds : subscriptions[w] # 0}
       IN  IF left = {}
           THEN /\ reply' = "stopped"
                /\ commands' = [commands EXCEPT !.open = FALSE, !.micro = Tail(@)]
           ELSE /\ commands' =
                      [commands EXCEPT
                         !.open = FALSE,
                         !.micro = Tail(@),
                         !.run = Append(@,
                            [kind |-> "stop",
                             at |-> [w \in RootIds |->
                                       IF w \in left THEN "removing" ELSE "done"]])]
                /\ UNCHANGED reply
    /\ UNCHANGED <<savedState, subscriptions>>
    /\ NoBatch
    /\ CommandOnly

\* stopMonitoring(w) behind await removeAccountChangeListener: the entry of
\* the wallet is deleted.  Called by stopTracking, the /stop handler replies
\* when both wallets are through; called by monitorTransactions, the token
\* accounts are asked for next
RemovalReturns(i, w) ==
    /\ Settled
    /\ i \in DOMAIN commands.run
    /\ commands.run[i].at[w] = "removing"
    /\ subscriptions' = [subscriptions EXCEPT ![w] = 0]
    /\ IF commands.run[i].kind = "stop"
       THEN /\ commands' = [commands EXCEPT !.run = Proceed(@, i, w, "done")]
            /\ reply' = IF Len(commands'.run) < Len(commands.run)
                        THEN "stopped" ELSE reply
       ELSE /\ commands' = [commands EXCEPT !.run = Proceed(@, i, w, "balances")]
            /\ UNCHANGED reply
    /\ UNCHANGED <<isTracking, savedState, listeners, stoppedByCommand>>
    /\ NoBatch
    /\ CommandOnly

\* monitorTransactions(w) of startTracking behind await updateTokenBalances:
\* the token accounts are enqueued, both subscriptions are opened and the
\* token subscription is stored; when both wallets are through, startTracking
\* writes the state and the /start handler replies
BalancesReturn(i, w) ==
    /\ Settled
    /\ i \in DOMAIN commands.run
    /\ commands.run[i].kind = "start"
    /\ commands.run[i].at[w] = "balances"
    /\ EnqueueOrNot(w)
    /\ LET opened == Subscribe(listeners, w)
       IN  /\ listeners' = opened
           /\ subscriptions' = [subscriptions EXCEPT ![w] = Stored(opened, w)]
    /\ commands' = [commands EXCEPT !.run = Proceed(@, i, w, "done")]
    /\ IF Len(commands'.run) < Len(commands.run)
       THEN /\ savedState' = saveState(isTracking)
            /\ reply' = "started"
       ELSE UNCHANGED <<savedState, reply>>
    /\ UNCHANGED <<isTracking, stoppedByCommand>>
    /\ CommandOnly

\* start() goes on when the node or the transport answers
BootProceeds ==
    /\ Settled
    /\ \/ BootBalancesReturn
       \/ BootSendSettles
       \/ \E w \in RootIds : BootMonitored(w)

NextCommands ==
    \/ BootProceeds
    \/ StartDelivered
    \/ StopDelivered
    \/ StartContinues
    \/ StopContinues
    \/ \E i \in 1..MaxCommands, w \in RootIds : RemovalReturns(i, w)
    \/ \E i \in 1..MaxCommands, w \in RootIds : BalancesReturn(i, w)

\* the tokens that are named while tracking is started and stopped: a root
\* wallet address and another one
CycleTokens == {MAIN_WALLET_ADDRESS_1, MaxToken}

\* ledger events that name a token, with /start and /stop in between: in
\* part_003 the handlers as the store sees them, in index.ts one await at
\* a time
NextCycle ==
    \/ \E id \in RootIds, ca \in CycleTokens : ObserveIgnore(id, ca)
    \/ \E id \in RootIds, ca \in CycleTokens : ObserveTrack(id, ca)
    \/ \E id \in RootIds, ca \in CycleTokens : ObserveConfirm(id, ca)
    \/ \E h \in 1..MaxHandlers : TokenInfoReturns(h)
    \/ \E h \in 1..MaxHandlers : TokenInfoFails(h)
    \/ \E h \in 1..MaxHandlers : SendSettles(h)
    \/ iteration = "part_003" /\ StartTracking
    \/ iteration = "part_003" /\ StopTracking
    \/ iteration = "index" /\ StartDelivered
    \/ iteration = "index" /\ StopDelivered
    \/ iteration = "index" /\ StartContinues
    \/ iteration = "index" /\ StopContinues
    \/ \E i \in 1..MaxCommands, w \in RootIds : iteration = "index" /\ BalancesReturn(i, w)

\* what the callbacks of onProgramAccountChange leave alone
LedgerOnly ==
    UNCHANGED <<trackedWallets, isTracking, corrVars, limiterVars, engineVars,
                pollingVars, batchStart, commands>>

\* the open token subscriptions of a wallet
ProgramListeners(w) ==
    {l \in ListenerIds : listeners[l].active /\ listeners[l].wallet = w
                         /\ listeners[l].kind = "program"}

\* the balance of a token account of the wallet changes on the ledger and the
\* change is delivered to the onProgramAccountChange callback (641-645): with
\* isTracking it sends getParsedAccountInfo and is suspended
AccountChanges(w, m, b) ==
    /\ ProgramListeners(w) # {}
    /\ isTracking
    /\ b # ledger.balance[w][m]
    /\ ledger.events[w][m] < MaxHandlers
    /\ \E i \in 1..MaxHandlers :
          /\ ledger.queries[i] = NoQuery
          /\ \A j \in 1..(i - 1) : ledger.queries[j] # NoQuery
          /\ ledger' = [ledger EXCEPT
                           !.balance[w][m] = b,
                           !.events[w][m] = @ + 1,
                           !.queries[i] = [wallet |-> w, mint |-> m, pc |-> "sent",
                                           result |-> 0]]
    /\ UNCHANGED <<batchVars, now>>
    /\ LedgerOnly

\* the node answers a getParsedAccountInfo with the account as it is then
QueryAnswered(i) ==
    /\ ledger.queries[i].pc = "sent"
    /\ ledger' = [ledger EXCEPT
                     !.queries[i].pc = "answered",
                     !.queries[i].result =
                         ledger.balance[ledger.queries[i].wallet][ledger.queries[i].mint]]
    /\ UNCHANGED <<batchVars, now>>
    /\ LedgerOnly

\* the answer reaches the callback (645-664): the owner is the wallet, the
\* balance of the answer is enqueued
QueryReturns(i) ==
    /\ ledger.queries[i].pc = "answered"
    /\ Enqueue(ledger.queries[i].wallet, ledger.queries[i].mint, ledger.queries[i].result)
    /\ ledger' = [ledger EXCEPT !.queries[i] = NoQuery]
    /\ LedgerOnly

\* start() and the callbacks of the token subscriptions
NextOrder ==
    \/ BootBalancesReturn
    \/ BootSendSettles
    \/ \E w \in RootIds : BootMonitored(w)
    \/ \E w \in RootIds, m \in EngineMints, b \in Balances : AccountChanges(w, m, b)
    \/ \E i \in 1..MaxHandlers : QueryAnswered(i)
    \/ \E i \in 1..MaxHandlers : QueryReturns(i)

NextEngine ==
    \/ BootBalancesReturn
    \/ BootSendSettles
    \/ \E w \in RootIds : BootMonitored(w)
    \/ StartCommand
    \/ StopCommand
    \/ \E w \in RootIds : StopMonitoringReturns(w)
    \/ \E l \in ListenerIds : LedgerEvent(l)
    \/ HandlerReturns
    \/ Advance
    \/ \E t \in TimerIds : TimeoutFires(t)
    \/ \E t \in TimerIds : FlushTokenInfoReturns(t)
    \/ \E t \in TimerIds : FlushSendSettles(t)
    \/ \E t \in TimerIds, s \in 1..MaxRetryAfter : FlushSendRejected(t, s)

----------------------------------------------------------------------------
(* Rate limiter: waitForRateLimit, handleRateLimitError (rateLimiter.ts 26-100) *)

Max(a, b) == IF a >= b THEN a ELSE b

Min(a, b) == IF a <= b THEN a ELSE b

\* chatLimits has no entry for the chat
NoLimit == [lastMessageTime |-> -1, messageCount |-> 0, resetTime |-> 0, retryAfter |-> 0]

\* { lastMessageTime: 0, messageCount: 0, resetTime: Date.now() }; retryAfter
\* undefined is 0
FreshLimit(t) == [lastMessageTime |-> 0, messageCount |-> 0, resetTime |-> t, retryAfter |-> 0]

\* the fields of the limiter a call reads and writes
Limiter == [count |-> globalMessageCount, reset |-> lastGlobalReset, chats |-> chatLimits]

\* const resetInterval = isGroup ? this.GROUP_RESET_INTERVAL : this.RESET_INTERVAL
resetInterval(chatId) == IF IsGroup(chatId) THEN GROUP_RESET_INTERVAL ELSE RESET_INTERVAL

\* const messageLimit = isGroup ? this.GROUP_LIMIT : this.CHAT_LIMIT
messageLimit(chatId) == IF IsGroup(chatId) THEN GROUP_LIMIT ELSE CHAT_LIMIT

\* (isGroup ? 3000 : 1000): minimum delay between messages
MinDelay(chatId) == IF IsGroup(chatId) THEN 3000 ELSE 1000

\* faulty variant: the global counter is never reset
ResetGlobalNever(l, t) == l

\* if (Date.now() - this.lastGlobalReset >= this.RESET_INTERVAL) { ... }
ResetGlobal(l, t) ==
    IF t - l.reset >= RESET_INTERVAL THEN [l EXCEPT !.count = 0, !.reset = t] ELSE l

\* if (!this.chatLimits.has(chatId)) this.chatLimits.set(chatId, {...})
EnsureLimit(l, chatId, t) ==
    IF l.chats[chatId] = NoLimit THEN [l EXCEPT !.chats[chatId] = FreshLimit(t)] ELSE l

\* if (Date.now() - limit.resetTime >= resetInterval) { ... }
ResetChat(l, chatId, t) ==
    IF t - l.chats[chatId].resetTime >= resetInterval(chatId)
    THEN [l EXCEPT !.chats[chatId].messageCount = 0, !.chats[chatId].resetTime = t]
    ELSE l

\* faulty variant: the minimum delay between messages is not tested
MustWaitCountsOnly(l, chatId, t) ==
    \/ l.count >= GLOBAL_LIMIT
    \/ l.chats[chatId].messageCount >= messageLimit(chatId)

\* faulty variant: the chat's own counter and delay are not tested
MustWaitGlobalOnly(l, chatId, t) == l.count >= GLOBAL_LIMIT

\* faulty variant: the global counter is not tested
MustWaitChatOnly(l, chatId, t) ==
    \/ l.chats[chatId].messageCount >= messageLimit(chatId)
    \/ t - l.chats[chatId].lastMessageTime < MinDelay(chatId)

\* the condition of the while loop (60-64)
MustWait(l, chatId, t) ==
    \/ l.count >= GLOBAL_LIMIT
    \/ l.chats[chatId].messageCount >= messageLimit(chatId)
    \/ t - l.chats[chatId].lastMessageTime < MinDelay(chatId)

\* Math.max(1000, Math.min(a, b, isGroup ? 3000 : 1000 - (...))): the
\* conditional takes the whole difference as its else branch
waitTime(l, chatId, t) ==
    Max(1000,
        Min(RESET_INTERVAL - (t - l.reset),
            Min(resetInterval(chatId) - (t - l.chats[chatId].resetTime),
                IF IsGroup(chatId) THEN 3000
                ELSE 1000 - (t - l.chats[chatId].lastMessageTime))))

\* this.globalMessageCount++; limit.messageCount++; limit.lastMessageTime = Date.now()
UpdateCounters(l, chatId, t) ==
    [l EXCEPT !.count = @ + 1,
              !.chats[chatId].messageCount = @ + 1,
              !.chats[chatId].lastMessageTime = t]

\* a call not yet made, and a call that has resolved
NoCall == [chat |-> "none", pc |-> "idle", wakeAt |-> 0]

Resolved == [chat |-> "none", pc |-> "done", wakeAt |-> 0]

IdleCallers == {i \in DOMAIN waiters : waiters[i].pc = "idle"}

\* the calls for a chat that are suspended at an await
Waiting(chatId) ==
    {i \in DOMAIN waiters : waiters[i].pc \in {"retrySleep", "loopSleep"}
                             /\ waiters[i].chat = chatId}

LimiterInit ==
    /\ clock = LimiterEpoch
    /\ globalMessageCount = 0
    /\ lastGlobalReset = LimiterEpoch
    /\ chatLimits = [c \in Chats |-> NoLimit]
    /\ waiters = [i \in 1..MaxCallers |-> NoCall]
    /\ completions = [c \in Chats |-> [last |-> -1, gap |-> -1]]
    /\ reportedUntil = [c \in Chats |-> 0]
    /\ reports = 0

\* the limiter's fields after a step of a call
Store(l) ==
    /\ globalMessageCount' = l.count
    /\ lastGlobalReset' = l.reset
    /\ chatLimits' = l.chats

\* from the chat counter reset (53-57) to the end of the call: the loop
\* either suspends the call for waitTime or lets it through to the counters
EnterLoop(i, chatId, l0) ==
    LET l == ResetChat(l0, chatId, clock)
    IN  IF MustWait(l, chatId, clock)
        THEN /\ Store(l)
             /\ waiters' = [waiters EXCEPT ![i] =
                   [chat |-> chatId, pc |-> "loopSleep",
                    wakeAt |-> clock + waitTime(l, chatId, clock)]]
             /\ UNCHANGED completions
        ELSE /\ Store(UpdateCounters(l, chatId, clock))
             /\ waiters' = [waiters EXCEPT ![i] = Resolved]
             /\ completions' = [completions EXCEPT ![chatId] =
                   [last |-> clock, gap |-> IF @.last = -1 THEN -1 ELSE clock - @.last]]

\* time passes, for at most ticks steps of the clock
Elapse(ticks) ==
    /\ clock < LimiterEpoch + ticks * LimiterStep
    /\ clock' = clock + LimiterStep
    /\ UNCHANGED <<globalMessageCount, lastGlobalReset, chatLimits, waiters,
                   completions, reportedUntil, reports>>
    /\ LimiterOnly

LimiterTick == Elapse(MaxLimiterTicks)

\* waitForRateLimit(chatId, isGroup) up to its first await or its end
waitForRateLimit(chatId) ==
    /\ IdleCallers # {}
    /\ LET i == CHOOSE j \in IdleCallers : \A k \in IdleCallers : j <= k
           l == EnsureLimit(ResetGlobal(Limiter, clock), chatId, clock)
           retryAfter == l.chats[chatId].retryAfter
       IN  IF retryAfter # 0 /\ clock < retryAfter
           THEN /\ Store(l)
                /\ waiters' = [waiters EXCEPT ![i] =
                      [chat |-> chatId, pc |-> "retrySleep", wakeAt |-> retryAfter]]
                /\ UNCHANGED completions
           ELSE EnterLoop(i, chatId, l)
    /\ UNCHANGED <<clock, reportedUntil, reports>>
    /\ LimiterOnly

\* the retry-after sleep (49) ends: limit.retryAfter = undefined, then on
\* to the chat counter reset and the loop
RetrySleepEnds(i) ==
    /\ waiters[i].pc = "retrySleep"
    /\ clock >= waiters[i].wakeAt
    /\ EnterLoop(i, waiters[i].chat,
                 [Limiter EXCEPT !.chats[waiters[i].chat].retryAfter = 0])
    /\ UNCHANGED <<clock, reportedUntil, reports>>
    /\ LimiterOnly

\* the sleep in the loop (74) ends: both counters are reset if due (76-84)
\* and the loop condition is tested again
LoopSleepEnds(i) ==
    /\ waiters[i].pc = "loopSleep"
    /\ clock >= waiters[i].wakeAt
    /\ EnterLoop(i, waiters[i].chat, ResetGlobal(Limiter, clock))
    /\ UNCHANGED <<clock, reportedUntil, reports>>
    /\ LimiterOnly

\* handleRateLimitError(chatId, retryAfterSeconds)
handleRateLimitError(chatId, retryAfterSeconds) ==
    /\ reports < MaxReports
    /\ reports' = reports + 1
    /\ chatLimits' =
          IF chatLimits[chatId] # NoLimit
          THEN [chatLimits EXCEPT ![chatId].retryAfter = clock + retryAfterSeconds * 1000,
                                  ![chatId].messageCount = CHAT_LIMIT]
          ELSE chatLimits
    /\ reportedUntil' = [reportedUntil EXCEPT ![chatId] = clock + retryAfterSeconds * 1000]
    /\ UNCHANGED <<clock, globalMessageCount, lastGlobalReset, waiters, completions>>
    /\ LimiterOnly

\* the calls whose sleep is over
Due == {i \in DOMAIN waiters : waiters[i].pc \in {"retrySleep", "loopSleep"}
                               /\ clock >= waiters[i].wakeAt}

\* LiveCallers calls, none made yet
LimiterLiveInit ==
    /\ clock = LimiterEpoch
    /\ globalMessageCount = 0
    /\ lastGlobalReset = LimiterEpoch
    /\ chatLimits = [c \in LiveChats |-> NoLimit]
    /\ waiters = [i \in 1..LiveCallers |-> NoCall]
    /\ completions = [c \in LiveChats |-> [last |-> -1, gap |-> -1]]
    /\ reportedUntil = [c \in LiveChats |-> 0]
    /\ reports = 0

\* the calls are issued at the same instant
IssueCall(chatId) == clock = LimiterEpoch /\ waitForRateLimit(chatId)

\* time advances and every timer fires when it is due
TimePasses == Due = {} /\ Elapse(LiveTicks)

NextLimiterLive ==
    \/ TimePasses
    \/ \E c \in LiveChats : IssueCall(c)
    \/ \E i \in 1..LiveCallers : LoopSleepEnds(i)

NextLimiter ==
    \/ LimiterTick
    \/ \E c \in Chats : waitForRateLimit(c)
    \/ \E i \in 1..MaxCallers : RetrySleepEnds(i)
    \/ \E i \in 1..MaxCallers : LoopSleepEnds(i)
    \/ \E c \in Chats, r \in 1..MaxRetryAfter : handleRateLimitError(c, r)

----------------------------------------------------------------------------
(* Polling backoff: getPollingInterval, handlePollingError,
   handlePollingSuccess (rateLimiter.ts 103-140) *)

RECURSIVE Pow2(_)
\* Math.pow(2, n)
Pow2(n) == IF n = 0 THEN 1 ELSE 2 * Pow2(n - 1)

\* lastPollingTime = 0, consecutiveErrors = 0
PollingInit ==
    /\ consecutiveErrors = 0
    /\ lastPollingTime = 0
    /\ errorsInARow = 0
    /\ backoff = -1

\* getPollingInterval: if (timeSinceLastPoll >= MAX_POLLING_INTERVAL) the
\* error count is reset
ErrorsAfterWait(errors, t) ==
    IF t - lastPollingTime >= MAX_POLLING_INTERVAL THEN 0 ELSE errors

\* faulty variant: the interval is not capped
backoffUncapped(errors) == POLLING_INTERVAL * Pow2(errors)

\* getPollingInterval: Math.min(POLLING_INTERVAL * 2^consecutiveErrors, MAX_POLLING_INTERVAL)
backoffInterval(errors) == Min(POLLING_INTERVAL * Pow2(errors), MAX_POLLING_INTERVAL)

\* every polling step leaves these alone
PollingOnly ==
    UNCHANGED <<storeVars, corrVars, batchVars, engineVars, globalMessageCount,
                lastGlobalReset, chatLimits, waiters, completions, reportedUntil,
                reports, batchStart, ledger, commands>>

\* time passes: a second, or a full maximum polling interval
PollTick(d) ==
    /\ clock < LimiterEpoch + MaxPollTicks * MAX_POLLING_INTERVAL
    /\ clock' = clock + d
    /\ UNCHANGED pollingVars
    /\ PollingOnly

\* getPollingInterval()
getPollingInterval ==
    /\ consecutiveErrors' = ErrorsAfterWait(consecutiveErrors, clock)
    /\ lastPollingTime' = clock
    /\ UNCHANGED <<errorsInARow, backoff, clock>>
    /\ PollingOnly

\* handlePollingError(error) with an error that is not a 429 with "retry
\* after": the counter is incremented and capped, then getPollingInterval()
handlePollingError ==
    /\ errorsInARow < MaxPollErrors
    /\ LET errors == Min(consecutiveErrors + 1, MAX_BACKOFF_ATTEMPTS)
       IN  /\ consecutiveErrors' = ErrorsAfterWait(errors, clock)
           /\ backoff' = backoffInterval(consecutiveErrors')
    /\ lastPollingTime' = clock
    /\ errorsInARow' = errorsInARow + 1
    /\ UNCHANGED clock
    /\ PollingOnly

\* handlePollingError(error) with "ETELEGRAM: 429 ... retry after s": the
\* counter is incremented and capped, the result is s seconds
handlePollingThrottled(s) ==
    /\ errorsInARow < MaxPollErrors
    /\ consecutiveErrors' = Min(consecutiveErrors + 1, MAX_BACKOFF_ATTEMPTS)
    /\ backoff' = s * 1000
    /\ errorsInARow' = errorsInARow + 1
    /\ UNCHANGED <<lastPollingTime, clock>>
    /\ PollingOnly

\* handlePollingSuccess()
handlePollingSuccess ==
    /\ consecutiveErrors' = 0
    /\ errorsInARow' = 0
    /\ backoff' = -1
    /\ UNCHANGED <<lastPollingTime, clock>>
    /\ PollingOnly

\* the polling backoff with the clock moving by full maximum intervals
NextBackoff ==
    \/ PollTick(MAX_POLLING_INTERVAL)
    \/ getPollingInterval
    \/ handlePollingError
    \/ \E s \in 1..MaxRetryAfter : handlePollingThrottled(s)
    \/ handlePollingSuccess

NextPolling ==
    \/ \E d \in {POLLING_INTERVAL, MAX_POLLING_INTERVAL} : PollTick(d)
    \/ getPollingInterval
    \/ handlePollingError
    \/ \E s \in 1..MaxRetryAfter : handlePollingThrottled(s)
    \/ handlePollingSuccess

Init == StoreInit /\ CorrInit /\ BatchInit /\ LimiterInit /\ EngineFresh /\ PollingInit

\* the batcher exists in the current module only
InitBatch == Init /\ iteration = "index"

\* the discovery store has its working operations in part_003 only
InitStore == Init /\ iteration = "part_003"

SpecBatch == InitBatch /\ [][NextBatch]_vars

SpecLookup == Init /\ [][NextLookup]_vars

SpecFlushes == InitBatch /\ [][NextFlushes]_vars

SpecLatency == InitBatch /\ [][NextLatency]_vars

SpecCorr == Init /\ [][NextCorr]_vars

SpecStore == InitStore /\ [][NextStore]_vars

\* the limiter is a class of its own; the iteration does not matter to it
InitLimiter == Init /\ iteration = "index"

SpecLimiter == InitLimiter /\ [][NextLimiter]_vars

InitEngine ==
    /\ EngineInit /\ CorrInit /\ BatchInit /\ LimiterInit /\ PollingInit
    /\ iteration = "index"

SpecEngine == InitEngine /\ [][NextEngine]_vars

SpecFailures == InitEngine /\ [][NextFailures]_vars

SpecCommands == InitEngine /\ [][NextCommands]_vars

SpecCycle == Init /\ [][NextCycle]_vars

SpecOrder == InitEngine /\ [][NextOrder]_vars

\* a first run (no state file) with the address of one or both root wallets
\* missing from the environment
InitUnconfigured ==
    /\ Constructed("absent")
    /\ unsetAddresses \in SUBSET RootIds \ {{}}
    /\ trackedWallets = [id \in RootIds |-> <<>>]
    /\ isTracking = FALSE
    /\ now = 0
    /\ CorrInit /\ BatchInit /\ LimiterInit /\ PollingInit
    /\ iteration = "index"

SpecUnconfigured == InitUnconfigured /\ [][NextEngine]_vars

SpecPolling == InitLimiter /\ [][NextPolling]_vars

SpecBackoff == InitLimiter /\ [][NextBackoff]_vars

InitLimiterLive ==
    /\ StoreInit /\ CorrInit /\ BatchInit /\ LimiterLiveInit /\ EngineFresh /\ PollingInit
    /\ iteration = "index"

\* the event loop keeps running: time advances and due timers fire
SpecLimiterLive ==
    /\ InitLimiterLive
    /\ [][NextLimiterLive]_vars
    /\ WF_vars(TimePasses)
    /\ \A i \in 1..LiveCallers : WF_vars(LoopSleepEnds(i))

----------------------------------------------------------------------------
(* Correlation map: properties *)

IsToken(ca) == ca \in Tokens /\ ~IsRootAddress(ca)

\* handlers suspended at an await for this contract address
Suspended(ca) == {h \in BusySlots : inflight[h].ca = ca}

\* the root wallets whose handlers have read this address's entry so far
ObservedBy(ca) ==
    {log[ca][i].id : i \in 1..Len(log[ca])} \cup {inflight[h].id : h \in Suspended(ca)}

ReturnedWith(ca, action) == {i \in 1..Len(log[ca]) : log[ca][i].action = action}

\* C3: for an unseen token X, a first observation by one root wallet
\* followed by an observation by the other returns Track and then Confirm,
\* and X is Confirmed once the second has returned.
C3_OtherWalletConfirms ==
    \A x \in Tokens :
        (IsToken(x) /\ Len(log[x]) >= 2 /\ log[x][1].id # log[x][2].id) =>
            /\ log[x][1].action = "Track"
            /\ log[x][2].action = "Confirm"
            /\ (Len(log[x]) = 2 /\ Suspended(x) = {}) => pumpfunTokens[x] = Confirmed

\* C4: as long as only one root wallet r has observed token X, every
\* observation has returned Track, none is on the Confirm branch, and X is
\* ObservedBy(r).
C4_SameWalletOnlyTracks ==
    \A x \in Tokens : \A r \in RootIds :
        (IsToken(x) /\ ObservedBy(x) = {r}) =>
            /\ \A i \in 1..Len(log[x]) : log[x][i].action = "Track"
            /\ Suspended(x) = {}
            /\ pumpfunTokens[x] = r

EntryStates == {Unseen, 1, 2, Confirmed, Ignored}

\* C23: an observation whose token id is the address of a root wallet
\* takes the Ignore branch whatever the entry holds, sets the entry to
\* Ignored and sends no alert.
C23_RootAddressIsIgnored ==
    \A ca \in Tokens :
        IsRootAddress(ca) =>
            /\ \A id \in RootIds, v \in EntryStates :
                  Branch([pumpfunTokens EXCEPT ![ca] = v], id, ca) = "Ignore"
            /\ \A i \in 1..Len(log[ca]) : log[ca][i].action = "Ignore"
            /\ Len(log[ca]) > 0 => pumpfunTokens[ca] = Ignored
            /\ alerts[ca] = 0
            /\ Suspended(ca) = {}

\* both root wallet addresses have been observed as token ids, one of them
\* by both root wallets
C23_RootAddressesObserved ==
    /\ pumpfunTokens[MAIN_WALLET_ADDRESS_1] = Ignored
    /\ pumpfunTokens[MAIN_WALLET_ADDRESS_2] = Ignored
    /\ ObservedBy(MAIN_WALLET_ADDRESS_1) = RootIds

\* C24: once the entry of a token is Confirmed (3) it stays Confirmed,
\* and every observation of the token, by either root wallet, takes the
\* Confirm branch: none returns Track or Ignore (in part_003 a Confirm whose
\* metadata lookup fails ends in the handler's catch).
C24_ConfirmedIsStable ==
    [][\A t \in Tokens :
          (IsToken(t) /\ pumpfunTokens[t] = Confirmed) =>
            /\ pumpfunTokens'[t] = Confirmed
            /\ \A id \in RootIds : Branch(pumpfunTokens, id, t) = "Confirm"
            /\ \A i \in 1..Len(log'[t]) :
                  i > Len(log[t]) =>
                     log'[t][i].action \in
                        (IF iteration = "index" THEN {"Confirm"} ELSE {"Confirm", "Error"})
      ]_vars

\* a Confirmed token that both root wallets have observed and for which
\* two observations have returned Confirm
C24_ConfirmedObservedAgain ==
    \E t \in Tokens :
        /\ IsToken(t)
        /\ pumpfunTokens[t] = Confirmed
        /\ ObservedBy(t) = RootIds
        /\ Cardinality(ReturnedWith(t, "Confirm")) >= 2

\* C6: an entry is Confirmed (3) only if both root wallets have observed
\* the token earlier in the run.
C6_ConfirmedNeedsBothWallets ==
    \A t \in Tokens : pumpfunTokens[t] = Confirmed => ObservedBy(t) = RootIds

\* C7: the alerts sent for a token are exactly its Confirm outcomes: one
\* alert per observation that returned Confirm (or is past its send), none
\* for Track, Ignore and NoOp.
C7_OneAlertPerConfirm ==
    \A t \in Tokens :
        alerts[t] = Cardinality(ReturnedWith(t, "Confirm"))
                    + Cardinality({h \in Suspended(t) : inflight[h].pc = "sendMessage"})

----------------------------------------------------------------------------
(* Discovery store: properties *)

\* C1: after every call (trackNewWallet, trackUpdateWallet, the seeding of
\* startTracking) each root wallet's store holds at most N addresses.
C1_StoreWithinCapacity ==
    \A id \in RootIds : Len(trackedWallets[id]) <= TRACKED_WALLETS_SIZE

\* a full store of wallet 1 that has already evicted its seed entry
C1_FullStoreAfterEviction ==
    /\ isTracking
    /\ Len(trackedWallets[1]) = TRACKED_WALLETS_SIZE
    /\ ~MapHas(trackedWallets[1], MAIN_WALLET_ADDRESS_1)

\* C2: a step that inserts a new address into a store holding N entries
\* removes exactly one entry, one whose timestamp was minimal among the
\* entries held before the step; with fewer than N entries nothing is
\* removed.
C2_EvictsLeastRecentlyUpdated ==
    [][\A id \in RootIds :
          LET old   == trackedWallets[id]
              new   == trackedWallets'[id]
              added == MapKeys(new) \ MapKeys(old)
              gone  == MapKeys(old) \ MapKeys(new)
          IN  (isTracking /\ isTracking' /\ added # {}) =>
                /\ Cardinality(added) = 1
                /\ IF Len(old) = TRACKED_WALLETS_SIZE
                   THEN /\ Cardinality(gone) = 1
                        /\ \A a \in gone : \A b \in MapKeys(old) :
                              TimestampOf(old, a) <= TimestampOf(old, b)
                   ELSE gone = {}
      ]_vars

\* wallet 2's store is full, its entries carry different timestamps and the
\* seed entry is gone: an insertion into the full store has evicted it
C2_SeedEvictedFromFullStore ==
    /\ isTracking
    /\ Len(trackedWallets[2]) = TRACKED_WALLETS_SIZE
    /\ ~MapHas(trackedWallets[2], MAIN_WALLET_ADDRESS_2)
    /\ \E i, j \in 1..Len(trackedWallets[2]) :
          trackedWallets[2][i].timestamp < trackedWallets[2][j].timestamp

\* C22: trackUpdateWallet for an address the store of that root wallet
\* holds sets that entry's timestamp to the current time and changes nothing
\* else: same size, same addresses in the same order, same timestamps of
\* the other entries, also when the store is full.
C22_RefreshTouchesOneEntry ==
    [][\A id \in RootIds :
          LET old == trackedWallets[id]
              new == trackedWallets'[id]
          IN  (isTracking /\ new # old) =>
                \A k \in 1..Len(old) :
                    new = trackUpdateWallet(old, old[k].address, now) =>
                      /\ Len(new) = Len(old)
                      /\ \A i \in 1..Len(old) :
                            /\ new[i].address = old[i].address
                            /\ new[i].timestamp =
                                  IF i = k THEN now ELSE old[i].timestamp
      ]_vars

\* a full store in which an entry has been refreshed: it is newer than an
\* entry inserted after it
C22_RefreshedInFullStore ==
    /\ isTracking
    /\ Len(trackedWallets[1]) = TRACKED_WALLETS_SIZE
    /\ \E i, j \in 1..Len(trackedWallets[1]) :
          i < j /\ trackedWallets[1][i].timestamp > trackedWallets[1][j].timestamp

----------------------------------------------------------------------------
(* Update batcher: properties *)

\* the step in which the callback of timer t leaves its loop
LeavesLoop(t) == flushes[t].pc = "getTokenInfo" /\ flushes'[t].pc # "getTokenInfo"

\* the mints enqueued more than once in the window this callback swapped out
EnqueuedAgain(t) == {m \in Mints : flushes[t].seen[m].n >= 2}

\* the entries of the message a callback hands to bot.sendMessage
Reported(flush) == flush.newTokens \cup flush.balanceChanges

\* a call of batchTokenUpdate for this wallet: it makes a timer of the wallet
Enqueues(wallet) ==
    \E t \in TimerIds :
        /\ timers[t].state = "unused"
        /\ timers'[t].state = "scheduled"
        /\ timers'[t].wallet = wallet

\* the instants at which a flush of this wallet is due
Deadlines(wallet) == {timers[t].fireAt : t \in Scheduled(wallet)}

\* the timer whose handle updateTimeouts holds for this wallet is running
StoredTimerRuns(wallet) ==
    /\ updateTimeouts[wallet] # 0
    /\ timers[updateTimeouts[wallet]].state = "scheduled"

\* C8 as stated: a flush whose window saw several updates of one token
\* hands over exactly one message, and the message reports that token with
\* its last enqueued balance.
C8_ExactlyOneMessagePerWindow ==
    [][\A t \in TimerIds :
          (LeavesLoop(t) /\ EnqueuedAgain(t) # {}) =>
            /\ flushes'[t].pc = "sendMessage"
            /\ \A m \in EnqueuedAgain(t) :
                  \E r \in Reported(flushes'[t]) :
                      r.mint = m /\ r.balance = flushes[t].seen[m].last
      ]_vars

\* C8: a flush hands over at most one message: one when some token of the
\* batch was classified new or changed against the tracked balance the
\* flush read for it, none otherwise; a message names a token at most once
\* and every balance it reports is the last one enqueued for that token in
\* the window, never an earlier one.
C8_AtMostOneMessageLastBalance ==
    [][\A t \in TimerIds :
          LeavesLoop(t) =>
            LET f    == flushes[t]
                e    == f.updates[f.i]
                kind == Classify(f.prev, e.balance)
            IN  /\ flushes'[t].pc \in {"sendMessage", "idle"}
                /\ flushes'[t].pc = "sendMessage" <=>
                      (Reported(f) # {} \/ kind # "none")
                /\ \A r \in Reported(flushes'[t]) :
                      /\ r.balance = f.seen[r.mint].last
                      /\ \A q \in Reported(flushes'[t]) : q.mint = r.mint => q = r
      ]_vars

\* a message is out for a window in which a token was enqueued more than
\* once, and it reports that token with the last enqueued balance
C8_CoalescedMessageSent ==
    \E t \in TimerIds : \E m \in Mints :
        /\ flushes[t].pc = "sendMessage"
        /\ flushes[t].seen[m].n >= 2
        /\ \E r \in Reported(flushes[t]) :
              r.mint = m /\ r.balance = flushes[t].seen[m].last

\* C9 as stated: a call of batchTokenUpdate for a wallet with a running
\* timer leaves the instants at which that wallet's flush is due unchanged.
C9_DeadlineUnchanged ==
    [][\A w \in RootIds :
          (Enqueues(w) /\ Scheduled(w) # {}) => Deadlines(w)' = Deadlines(w)
      ]_vars

\* C9: a call of batchTokenUpdate for a wallet whose stored timer is
\* running cancels that timer and stores a new one, due one window after
\* this call.
C9_EnqueueRestartsTimer ==
    [][\A w \in RootIds :
          (Enqueues(w) /\ StoredTimerRuns(w)) =>
            /\ timers'[updateTimeouts[w]].state = "cleared"
            /\ updateTimeouts'[w] # updateTimeouts[w]
            /\ timers'[updateTimeouts'[w]] =
                  [wallet |-> w, fireAt |-> now + UPDATE_DELAY, state |-> "scheduled"]
      ]_vars

\* a token was enqueued twice in the open window of a wallet, a timer has
\* been cancelled and the stored timer of the wallet is due later than one
\* window after the start of the run
C9_TimerRestartedLater ==
    \E w \in RootIds : \E m \in Mints :
        /\ window[w][m].n >= 2
        /\ \E t \in TimerIds : timers[t].state = "cleared"
        /\ StoredTimerRuns(w)
        /\ timers[updateTimeouts[w]].fireAt > UPDATE_DELAY

\* C10: at every instant each root wallet has at most one timer that is
\* scheduled and has not fired.
C10_OneTimerPerWallet ==
    \A w \in RootIds : Cardinality(Scheduled(w)) <= 1

\* the callback of timer t starts in this step
Fires(t) == timers[t].state = "scheduled" /\ timers'[t].state = "fired"

\* the callbacks of a wallet that are suspended at an await
Flushing(wallet) == {t \in TimerIds : flushes[t].wallet = wallet /\ flushes[t].pc # "idle"}

\* C26: when a timer fires, its callback takes every pending update of
\* the wallet and leaves the pending map empty in the same step, and no
\* other callback's batch changes; a callback goes through its batch entry
\* by entry to the last one; an update enqueued while a callback of the
\* wallet is suspended goes to the pending map with a timer of its own and
\* not to the batch of the suspended callback.
C26_PendingSwappedInOneStep ==
    [][/\ \A t \in TimerIds :
             Fires(t) =>
               LET w == timers[t].wallet
               IN  /\ pendingUpdates'[w] = <<>>
                   /\ pendingUpdates[w] # <<>> =>
                         /\ flushes'[t].updates = pendingUpdates[w]
                         /\ flushes'[t].i = 1
                   /\ \A u \in TimerIds \ {t} : flushes'[u] = flushes[u]
       /\ \A t \in TimerIds :
             flushes[t].pc = "getTokenInfo" =>
               /\ flushes'[t].pc = "getTokenInfo" =>
                     /\ flushes'[t].updates = flushes[t].updates
                     /\ flushes'[t].i \in {flushes[t].i, flushes[t].i + 1}
               /\ LeavesLoop(t) => flushes[t].i = Len(flushes[t].updates)
       /\ \A w \in RootIds :
             (Enqueues(w) /\ Flushing(w) # {}) =>
               /\ flushes' = flushes
               /\ Scheduled(w)' # {}
               /\ \A m \in Mints :
                     window'[w][m] # window[w][m] =>
                        PendingIndex(pendingUpdates'[w], m) # 0
      ]_vars

\* an update is pending for a wallet, with its timer, while a callback of
\* the wallet that has taken an earlier batch is suspended at an await
C26_EnqueuedDuringFlush ==
    \E w \in RootIds :
        /\ Flushing(w) # {}
        /\ pendingUpdates[w] # <<>>
        /\ Scheduled(w) # {}

\* the callback of timer t is resumed from await getTokenInfo in this step
Classifies(t) == flushes[t].pc = "getTokenInfo" /\ flushes'[t] # flushes[t]

\* C27, for the balance the callback read before the lookup: when a
\* callback is resumed for an entry with new balance b whose previous
\* balance it read as p, the entry joins the new tokens iff p = 0
\* and b > 0, the balance changes iff p > 0 and p # b, and neither
\* otherwise; the tracked balance of the token becomes b; and the callback
\* hands a message over iff some entry of its batch was put in one of the
\* two lists.
C27_ClassifiedAgainstPrevious ==
    [][\A t \in TimerIds :
          Classifies(t) =>
            LET f      == flushes[t]
                e      == f.updates[f.i]
                p      == f.prev
                b      == e.balance
                isNew  == p = 0 /\ b > 0
                isChg  == p > 0 /\ p # b
                newT   == f.newTokens \cup
                            (IF isNew THEN {[mint |-> e.mint, balance |-> b]} ELSE {})
                chg    == f.balanceChanges \cup
                            (IF isChg THEN {[mint |-> e.mint, prev |-> p, balance |-> b]}
                             ELSE {})
            IN  /\ trackedBalances'[f.wallet][e.mint] = b
                /\ flushes'[t].pc # "idle" =>
                      /\ flushes'[t].newTokens = newT
                      /\ flushes'[t].balanceChanges = chg
                /\ LeavesLoop(t) =>
                      /\ flushes'[t].pc = "sendMessage" <=> newT \cup chg # {}
                      /\ flushes'[t].pc = "idle" <=> newT \cup chg = {}
      ]_vars

\* a message is out that lists a new token and a changed balance
C27_NewAndChangedReported ==
    \E t \in TimerIds :
        /\ flushes[t].pc = "sendMessage"
        /\ flushes[t].newTokens # {}
        /\ flushes[t].balanceChanges # {}

\* C27 as stated: an entry is classified against the balance the wallet's
\* record holds for its token when the callback classifies it, that is when
\* it is resumed from the lookup: new iff that balance is 0 and b > 0,
\* changed iff it is positive and differs from b, not reported otherwise.
C27_ClassifiedAgainstLastKnown ==
    [][\A t \in TimerIds :
          Classifies(t) =>
            LET f     == flushes[t]
                e     == f.updates[f.i]
                p     == trackedBalances[f.wallet][e.mint]
                b     == e.balance
                after == IF flushes'[t].pc = "idle"
                         THEN [newTokens |-> {}, balanceChanges |-> {}]
                         ELSE flushes'[t]
            IN  /\ (\E r \in after.newTokens \ f.newTokens : r.mint = e.mint)
                      <=> (p = 0 /\ b > 0)
                /\ (\E r \in after.balanceChanges \ f.balanceChanges : r.mint = e.mint)
                      <=> (p > 0 /\ p # b)
                /\ trackedBalances'[f.wallet][e.mint] = b
      ]_vars

\* C28 as stated: when a lookup fails the callback goes on to the entries
\* after it, the failing entry is in neither list of the message, and what
\* was classified before it is still handed over.
C28_FailedLookupSkipsOneEntry ==
    [][\A t \in TimerIds :
          Classifies(t) =>
            LET f == flushes[t]
            IN  /\ f.i < Len(f.updates) =>
                      /\ flushes'[t].pc = "getTokenInfo"
                      /\ flushes'[t].i = f.i + 1
                /\ (LeavesLoop(t) /\ Reported(f) # {}) => flushes'[t].pc = "sendMessage"
                /\ \A m \in flushes'[t].failed :
                      \A r \in Reported(flushes'[t]) : r.mint # m
      ]_vars

----------------------------------------------------------------------------
(* Rate limiter: properties *)

\* C11: two calls of waitForRateLimit for the same chat never resolve less
\* than the minimum delay apart (1000 ms for a direct chat, 3000 ms for a
\* group), whatever calls are suspended at the same time.
C11_MinimumSpacing ==
    \A c \in Chats : completions[c].gap = -1 \/ completions[c].gap >= MinDelay(c)

\* two calls for the direct chat have resolved exactly the minimum delay
\* apart while a third call for it is still suspended
C11_SecondOfThreeResolved ==
    /\ completions["direct"].gap = MinDelay("direct")
    /\ Waiting("direct") # {}

\* a call of waitForRateLimit for this chat resolves in this step
Resolves(chatId) == completions'[chatId] # completions[chatId]

\* C13: after handleRateLimitError(r, s) no call of waitForRateLimit for r
\* resolves before s seconds have passed since the report, whether r had an
\* entry in chatLimits or not and whether the call was made before or after
\* the report.
C13_NoResolveBeforeRetryAfter ==
    [][\A c \in Chats : Resolves(c) => clock >= reportedUntil[c]]_vars

\* the global counter is reset in this step
GlobalReset == lastGlobalReset' # lastGlobalReset

\* C29: the global counter never exceeds GLOBAL_LIMIT; it is reset only
\* when at least RESET_INTERVAL has passed since the last global reset, and
\* apart from resets it only counts up, by one for each call that resolves,
\* so that at most GLOBAL_LIMIT calls resolve between two resets.
C29_GlobalCounterBounded ==
    [][/\ globalMessageCount' <= GLOBAL_LIMIT
       /\ GlobalReset =>
             /\ clock - lastGlobalReset >= RESET_INTERVAL
             /\ lastGlobalReset' = clock
       /\ globalMessageCount' =
             (IF GlobalReset THEN 0 ELSE globalMessageCount)
               + (IF \E c \in DOMAIN completions : Resolves(c) THEN 1 ELSE 0)
      ]_vars

\* the global counter is at GLOBAL_LIMIT and a call is suspended for a chat
\* that has had no message yet: only the global counter holds it back
C29_HeldBackByGlobalCounter ==
    /\ globalMessageCount = GLOBAL_LIMIT
    /\ \E i \in DOMAIN waiters :
          /\ waiters[i].pc = "loopSleep"
          /\ chatLimits[waiters[i].chat].messageCount = 0
          /\ chatLimits[waiters[i].chat].lastMessageTime = 0

\* C30: the send count of a chat never exceeds its cap (CHAT_LIMIT for a
\* direct chat, GROUP_LIMIT for a group), however the calls for the chat
\* interleave at their awaits, and a call that resolves raises the count by
\* one from below the cap.
C30_ChatCountWithinCap ==
    [][\A c \in DOMAIN chatLimits :
          /\ chatLimits'[c].messageCount <= messageLimit(c)
          /\ Resolves(c) =>
                /\ chatLimits'[c].messageCount >= 1
                /\ chatLimits'[c].messageCount <= chatLimits[c].messageCount + 1
      ]_vars

\* the direct chat is at its cap and two calls for it are suspended at the
\* same time
C30_TwoCallsHeldAtCap ==
    /\ chatLimits["direct"].messageCount = CHAT_LIMIT
    /\ Cardinality(Waiting("direct")) >= 2

\* call i is suspended in the loop in this step
LoopSleeps(i) ==
    /\ waiters'[i].pc = "loopSleep"
    /\ waiters'[i] # waiters[i]

\* the time left of each of the three constraints for a chat when a call
\* for it is suspended: global window, chat window, minimum delay
Remaining(chatId) ==
    {RESET_INTERVAL - (clock - lastGlobalReset'),
     resetInterval(chatId) - (clock - chatLimits'[chatId].resetTime),
     MinDelay(chatId) - (clock - chatLimits'[chatId].lastMessageTime)}

\* C31 as stated: each time a call has to wait in the loop, the wait it
\* schedules is the largest of the three remaining times, and at least
\* the minimum wait of 1000 ms.
C31_WaitIsLongestConstraint ==
    [][\A i \in DOMAIN waiters :
          LoopSleeps(i) =>
            LET rem  == Remaining(waiters'[i].chat)
                most == CHOOSE r \in rem : \A q \in rem : q <= r
            IN  waiters'[i].wakeAt - clock = Max(1000, most)
      ]_vars

\* C12: of 2 * GLOBAL_LIMIT calls of waitForRateLimit issued at the same
\* instant, every one that is suspended eventually resolves, as long as
\* time advances and timers fire.
C12_EveryCallResolves ==
    \A i \in 1..LiveCallers :
        (waiters[i].pc \in {"retrySleep", "loopSleep"}) ~> (waiters[i].pc = "done")

\* all 2 * GLOBAL_LIMIT calls have resolved, for more than GLOBAL_LIMIT
\* different chats, so that the global counter has made one of them wait
C12_AllResolvedPastGlobalLimit ==
    /\ \A i \in 1..LiveCallers : waiters[i].pc = "done"
    /\ Cardinality({c \in LiveChats : completions[c].last # -1}) > GLOBAL_LIMIT
    /\ \A c \in LiveChats : completions[c].gap = -1

----------------------------------------------------------------------------
(* Lifecycle and sends *)

\* start() hands the balance summary to bot.sendMessage in this step
SummarySent == boot = "displayCurrentBalances" /\ boot' = "sendMessage"

\* flush t hands its message to bot.sendMessage in this step
UpdateSent(t) == flushes[t].pc # "sendMessage" /\ flushes'[t].pc = "sendMessage"

\* some call of waitForRateLimit has resolved
Awaited == \E c \in Chats : completions[c].last # -1

\* C14: no message is handed to the transport before a call of
\* waitForRateLimit has resolved.
C14_SendAfterAwait ==
    [][(SummarySent \/ \E t \in TimerIds : UpdateSent(t)) => Awaited]_vars

\* the transport rejects the send of flush t in this step
Rejected(t) ==
    /\ throttled = 0 /\ throttled' # 0
    /\ flushes[t].pc = "sendMessage" /\ flushes'[t] # flushes[t]

\* C15: a message whose send is rejected with a retry-after is kept to be
\* sent again.
C15_RejectedMessageKept ==
    [][\A t \in TimerIds : Rejected(t) => Reported(flushes'[t]) = Reported(flushes[t])]_vars

\* what a repeated command must leave alone
LifecycleState ==
    <<isTracking, savedState, subscriptions, listeners, trackedWallets, pumpfunTokens>>

\* C16: /start while tracking and /stop while stopped change neither
\* isTracking, the saved state, the subscriptions nor the stores, and are
\* answered with "already active" and "already stopped".
C16_RepeatedCommandIsNoOp ==
    [][/\ (StartCommand /\ isTracking) =>
              (reply' = "already active" /\ UNCHANGED LifecycleState)
       /\ (StopCommand /\ ~isTracking) =>
              (reply' = "already stopped" /\ UNCHANGED LifecycleState)]_vars

\* /start has been answered with "already active" after /stop and /start
C16_AlreadyActiveReplied ==
    /\ reply = "already active"
    /\ isTracking
    /\ boot = "done"
    /\ \E w \in RootIds : subscriptions[w] = 0

\* no start() and no /stop handler is in progress
Quiescent == boot = "done" /\ stopping = {}

\* the subscription the tracker holds for a wallet is open
Subscribed(w) == subscriptions[w] # 0 /\ listeners[subscriptions[w]].active

C18_NoSubscriptionAfterStop ==
    Quiescent /\ stoppedByCommand => \A l \in ListenerIds : ~listeners[l].active

\* C19: after /stop has cleared isTracking, no flush hands a message to
\* the transport.
C19_NoSendAfterStop ==
    [][\A t \in TimerIds : UpdateSent(t) => ~stoppedByCommand]_vars

\* what the state file says about isTracking; without a file loadState
\* leaves the constructor's false
Persisted == savedState = "tracking"

\* a /start or /stop handler has been called and has not replied yet
InProgress == commands.micro # <<>> \/ commands.run # <<>> \/ stopping # {}

\* a /start or /stop handler takes the branch that does its work
WorkBegins == Len(commands'.micro) > Len(commands.micro)

Asking(w, m) ==
    {i \in 1..MaxHandlers : ledger.queries[i].wallet = w /\ ledger.queries[i].mint = m}

\* C33 as stated: once the callbacks of all changes delivered for a token of
\* a root wallet have enqueued, the pending balance of the token is the
\* balance of the change delivered last.
C33_PendingIsLatestDelivered ==
    \A w \in RootIds : \A m \in EngineMints :
        (ledger.events[w][m] > 0 /\ Asking(w, m) = {}) =>
            LET k == PendingIndex(pendingUpdates[w], m)
            IN  k # 0 /\ pendingUpdates[w][k].balance = ledger.balance[w][m]

\* a send of the flush of timer t fails with an error that is no throttle
SendFails(t) ==
    /\ flushes[t].pc = "sendMessage"
    /\ flushes'[t].pc # "sendMessage"
    /\ throttled = 0
    /\ throttled' = -1

\* the lookup of the entry a callback is at fails in this step
LookupFails(t) ==
    /\ flushes[t].pc = "getTokenInfo"
    /\ flushes'[t].pc # "idle"
    /\ flushes'[t].failed # flushes[t].failed

\* a subscription callback ends in this step
HandlerEnds == handler # NoHandler /\ handler' = NoHandler

\* what a failure in one handler must leave alone
Watching == <<isTracking, savedState, subscriptions, listeners>>

\* C34 as stated: a failed lookup, a failed send and a failed query each end
\* in their own handler: tracking, the saved state and the subscriptions stay
\* as they are, nothing is scheduled again for the message, and the message
\* of a failed send and the entry of a failed lookup are dropped.
C34_FailureStaysInHandler ==
    [][/\ \A t \in TimerIds :
             SendFails(t) =>
               /\ UNCHANGED Watching
               /\ flushes'[t] = IdleFlush
               /\ UNCHANGED <<pendingUpdates, timers>>
       /\ \A t \in TimerIds :
             LookupFails(t) =>
               /\ UNCHANGED Watching
               /\ \A r \in Reported(flushes'[t]) :
                     r.mint # flushes[t].updates[flushes[t].i].mint
       /\ HandlerEnds => UNCHANGED Watching
      ]_vars

\* C34 without the dropped entry: failures end in their handler, a failed
\* send is dropped and not tried again, and tracking, the saved state and
\* the subscriptions stay as they are.
C34_FailureLeavesEngineAlone ==
    [][/\ \A t \in TimerIds :
             SendFails(t) =>
               /\ UNCHANGED Watching
               /\ flushes'[t] = IdleFlush
               /\ UNCHANGED <<pendingUpdates, timers>>
       /\ (HandlerEnds \/ \E t \in TimerIds : LookupFails(t)) => UNCHANGED Watching
      ]_vars

\* tracking is switched on in this step
Starts == ~isTracking /\ isTracking'

\* the address store and the balance store hold nothing but the root wallets
OnlyRoots(wallets, balances) ==
    \A id \in RootIds :
        /\ \A i \in 1..Len(wallets[id]) :
              wallets[id][i].address =
                 (IF id = 1 THEN MAIN_WALLET_ADDRESS_1 ELSE MAIN_WALLET_ADDRESS_2)
        /\ \A m \in DOMAIN balances[id] : balances[id][m] = 0

\* C35: when tracking has been started, trackedWallets_1 and trackedWallets_2
\* hold no entry that was recorded before the start.
C35_StartLeavesNoEarlierEntry ==
    [][Starts => OnlyRoots(trackedWallets', trackedBalances')]_vars

\* a /stop was called while a /start was suspended, and both are through
BothThrough == commands.behind /\ ~InProgress /\ boot = "done"

\* C36: when a /stop was called while a /start was suspended at an await
\* and both handlers are through, isTracking is false, the state file says
\* stopped and no subscription is open.
C36_StopBehindStartEndsStopped ==
    BothThrough =>
        /\ ~isTracking
        /\ savedState = "stopped"
        /\ \A l \in ListenerIds : ~listeners[l].active

\* C36 without the subscriptions: isTracking and the state file agree on
\* stopped when both handlers are through.
C36_StopBehindStartSavedStopped ==
    BothThrough => ~isTracking /\ savedState = "stopped"

\* a handler of this command is suspended at await this.saveState()
SavedAndWaiting(kind) == \E k \in DOMAIN commands.micro : commands.micro[k] = kind

\* what the second of two equal commands must leave alone
Lifecycle == <<isTracking, savedState, subscriptions, listeners>>

\* the second of two /start, or of two /stop, that are handed over back to
\* back is answered that nothing is to be done, and does nothing
SecondIsTurnedAway ==
    /\ (StartDelivered /\ SavedAndWaiting("start") /\ isTracking) =>
          /\ reply' = "already active"
          /\ commands'.micro = commands.micro
          /\ UNCHANGED Lifecycle
    /\ (StopDelivered /\ SavedAndWaiting("stop") /\ ~isTracking) =>
          /\ reply' = "already stopped"
          /\ commands'.micro = commands.micro
          /\ UNCHANGED Lifecycle

\* C37 as stated: of two /start handed over back to back while stopped the
\* first writes the state and subscribes and the second is answered
\* "already active"; of two /stop while tracking the first does the work
\* and the second is answered "already stopped".
C37_OneHandlerDoesTheWork ==
    [][/\ SecondIsTurnedAway
       /\ WorkBegins => savedState' = saveState(isTracking')
       /\ (StartContinues /\ isTracking) => Len(commands'.run) > Len(commands.run)
      ]_vars

\* C37 without the subscription: the first handler writes the state and the
\* second is turned away.
C37_OneHandlerWritesTheState ==
    [][SecondIsTurnedAway /\ (WorkBegins => savedState' = saveState(isTracking'))]_vars

\* a /start or /stop handler runs in this step
CommandActs == isTracking' # isTracking \/ commands' # commands

\* C38: /start and /stop leave every entry of pumpfunTokens as it is, and
\* the entry of a token changes only when a handler for that token returns.
C38_OnlyObserveChangesEntry ==
    [][/\ CommandActs => pumpfunTokens' = pumpfunTokens
       /\ \A t \in Tokens :
             pumpfunTokens'[t] # pumpfunTokens[t] => Len(log'[t]) = Len(log[t]) + 1
      ]_vars

\* one token is ignored and one has been tracked for a wallet and then
\* confirmed, and tracking has been started and stopped
C38_EntriesAfterStartAndStop ==
    /\ \E t \in Tokens : pumpfunTokens[t] = Ignored
    /\ \E t \in Tokens :
          /\ pumpfunTokens[t] = Confirmed
          /\ Len(log[t]) >= 2 /\ log[t][1].action = "Track"
    /\ iteration = "index"
    /\ stoppedByCommand
    /\ ~isTracking
    /\ ~InProgress

----------------------------------------------------------------------------
(* Polling backoff *)

\* C20: after k calls of handlePollingError in a row the result is
\* min(POLLING_INTERVAL * 2^k, MAX_POLLING_INTERVAL).
C20_BackoffIsCappedExponential ==
    backoff # -1 => backoff = Min(POLLING_INTERVAL * Pow2(errorsInARow), MAX_POLLING_INTERVAL)

\* what getPollingInterval returns in this step, called on its own or by
\* handlePollingError
Interval == backoffInterval(consecutiveErrors')

\* C39: consecutiveErrors is always in 0..MAX_BACKOFF_ATTEMPTS, and what
\* getPollingInterval returns is in POLLING_INTERVAL..MAX_POLLING_INTERVAL.
C39_CounterAndIntervalInRange ==
    [][/\ consecutiveErrors \in 0..MAX_BACKOFF_ATTEMPTS
       /\ consecutiveErrors' \in 0..MAX_BACKOFF_ATTEMPTS
       /\ (getPollingInterval \/ handlePollingError) =>
              Interval \in POLLING_INTERVAL..MAX_POLLING_INTERVAL
       /\ handlePollingError => backoff' = Interval
      ]_vars

\* handlePollingError has been called more often than MAX_BACKOFF_ATTEMPTS
\* times in a row: the counter is at its cap and so is the interval
C39_CounterAtCap ==
    /\ errorsInARow > MAX_BACKOFF_ATTEMPTS
    /\ consecutiveErrors = MAX_BACKOFF_ATTEMPTS
    /\ backoff = MAX_POLLING_INTERVAL

----------------------------------------------------------------------------
(* Configuration *)

\* C21: with a root wallet address missing from the configuration,
\* isTracking is never true, neither in memory nor in the state file.
C21_NeverTrackingUnconfigured ==
    unsetAddresses # {} => ~isTracking /\ savedState # "tracking"

====
